---------------------------- MODULE Spec2Model ----------------------------
(***************************************************************************)
(* A model of blender_graphviz_rig: the bone-name symmetry analysis of     *)
(* analyzebones.py, the graph builder of analyzerigs.py, the DOT renderer  *)
(* of renderdot.py and the file saving of savefiles.py.                    *)
(*                                                                         *)
(* Strings whose characters matter (bone names, subtarget names) are       *)
(* sequences of one-character strings, so that endswith, startswith,       *)
(* slicing and the regular expressions are computed character by           *)
(* character.  Python's None is the empty tuple None where a tuple or a    *)
(* name is expected, and the string "None" where an atom is expected.      *)
(***************************************************************************)
EXTENDS Integers, Sequences, FiniteSets, TLC

VARIABLES
    \* --- name analysis (analyzebones.py, pure functions) ---
    bone_name_0,        \* first name argument
    bone_name_1,        \* second name argument
    name_op,            \* which function was applied last ("init" before any)
    name_result_0,      \* what the first application returned
    name_result_1,      \* what the second application returned
    \* --- the Blender scene the analysis reads (read-only input) ---
    scene,
    \* --- bone classification (analyzebones.py, pure functions) ---
    bone_op,            \* which function was applied last ("init" before any)
    bone_args,          \* the names of the bones it was applied to
    bone_result,        \* what it returned
    \* --- the graph builder (analyzerigs.py) ---
    blender_structs,        \* analyze_rig_graph's argument: the root objects
    excluded_bones,         \* the <<object, bone name>> pairs is_bone_excluded holds for
    pc,                     \* position in analyze_rig_graph / create_legend_data
    index,                  \* position of the loop of the current pass
    fresh_ids,              \* the next value of itertools.count()
    struct_entity_id_dict,  \* registry of nodes and edges, in insertion order
    struct_cluster_id_dict, \* registry of clusters, in insertion order
    graph_data,             \* the graph under construction
    id_log,                 \* every call of declare_entity_id and what it returned
    \* --- the DOT renderer (renderdot.py, pure functions) ---
    dot_args,           \* the named arguments of the create_dot_* functions
    dot_op,             \* which function was applied last ("init" before any)
    dot_entity,         \* the entity ID it was applied to, if any
    dot_text,           \* the text it returned
    \* --- saving the files (savefiles.py) ---
    save_args,          \* the arguments of save_files and what the OS will answer
    save_pc,            \* position in save_files / save_files_async
    file_system,        \* the files and directories that exist
    save_raised,        \* None or <<the exception that is propagating>>
    save_log            \* the file operations performed so far, in order

name_vars == <<bone_name_0, bone_name_1, name_op, name_result_0, name_result_1>>
bone_vars == <<bone_op, bone_args, bone_result>>
build_vars == <<fresh_ids, struct_entity_id_dict, struct_cluster_id_dict, graph_data, id_log>>
graph_vars == <<blender_structs, excluded_bones, pc, index, build_vars>>
render_vars == <<dot_args, dot_op, dot_entity, dot_text>>
save_vars == <<save_args, save_pc, file_system, save_raised, save_log>>
vars == <<name_vars, scene, bone_vars, graph_vars, render_vars, save_vars>>

-----------------------------------------------------------------------------
(* Bounds of the name universe *)

\* Longest run of filler characters between the markers of a generated name.
MaxRootLen == 1

-----------------------------------------------------------------------------
(* analyzebones.py: characters and helpers *)

None == <<>>

\* An assignment statement "name = value" followed by the statements In(name):
\* value is computed once.
Let(value, In(_)) == CHOOSE result \in { In(v) : v \in {value} } : TRUE

mirror_symbol == "<->"

Separators == {"_", ".", "-", " "}

Digits == {"0", "1", "2", "3", "4", "5", "6", "7", "8", "9"}

\* s[:-n] for 0 < n, and s[n:]
DropLast(s, n) == SubSeq(s, 1, Len(s) - n)
DropFirst(s, n) == SubSeq(s, n + 1, Len(s))
LastN(s, n) == SubSeq(s, Len(s) - n + 1, Len(s))
FirstN(s, n) == SubSeq(s, 1, n)

\* str.endswith((sep + letter) for the four separators)
EndsWithSepLetter(s, letter) ==
    /\ Len(s) >= 2
    /\ s[Len(s)] = letter
    /\ s[Len(s) - 1] \in Separators

\* str.startswith((letter + sep) for the four separators)
StartsWithLetterSep(s, letter) ==
    /\ Len(s) >= 2
    /\ s[1] = letter
    /\ s[2] \in Separators

\* The number of digits that end the name.
RECURSIVE TrailingDigits(_)
TrailingDigits(s) ==
    IF Len(s) > 0 /\ s[Len(s)] \in Digits
    THEN 1 + TrailingDigits(DropLast(s, 1))
    ELSE 0

\* re.compile(r'\.\d+$').search(name): group(0) or ''
get_name_numeric_suffix(name) ==
    LET k == TrailingDigits(name)
    IN  IF k >= 1 /\ Len(name) > k /\ name[Len(name) - k] = "."
        THEN LastN(name, k + 1)
        ELSE <<>>

\* A miscounted word length.
right_word_length_short == 5 - 1

right_word_length == 5
left_word_length == 4

\* r'RI[gG][hH][tT]$' and its siblings, applied with search()
right_suffix_all_caps_pattern(s) ==
    /\ Len(s) >= 5
    /\ LET w == LastN(s, 5)
       IN  w[1] = "R" /\ w[2] = "I" /\ w[3] \in {"g", "G"}
           /\ w[4] \in {"h", "H"} /\ w[5] \in {"t", "T"}

right_suffix_capitalized_pattern(s) ==
    /\ Len(s) >= 5
    /\ LET w == LastN(s, 5)
       IN  w[1] = "R" /\ w[2] = "i" /\ w[3] \in {"g", "G"}
           /\ w[4] \in {"h", "H"} /\ w[5] \in {"t", "T"}

right_suffix_lowercase_pattern(s) ==
    /\ Len(s) >= 5
    /\ LET w == LastN(s, 5)
       IN  w[1] = "r" /\ w[2] \in {"i", "I"} /\ w[3] \in {"g", "G"}
           /\ w[4] \in {"h", "H"} /\ w[5] \in {"t", "T"}

left_suffix_all_caps_pattern(s) ==
    /\ Len(s) >= 4
    /\ LET w == LastN(s, 4)
       IN  w[1] = "L" /\ w[2] = "E" /\ w[3] \in {"f", "F"} /\ w[4] \in {"t", "T"}

left_suffix_capitalized_pattern(s) ==
    /\ Len(s) >= 4
    /\ LET w == LastN(s, 4)
       IN  w[1] = "L" /\ w[2] = "e" /\ w[3] \in {"f", "F"} /\ w[4] \in {"t", "T"}

left_suffix_lowercase_pattern(s) ==
    /\ Len(s) >= 4
    /\ LET w == LastN(s, 4)
       IN  w[1] = "l" /\ w[2] \in {"e", "E"} /\ w[3] \in {"f", "F"}
           /\ w[4] \in {"t", "T"}

right_prefix_all_caps_pattern(s) ==
    /\ Len(s) >= 5
    /\ s[1] = "R" /\ s[2] = "I" /\ s[3] \in {"g", "G"}
    /\ s[4] \in {"h", "H"} /\ s[5] \in {"t", "T"}

right_prefix_capitalized_pattern(s) ==
    /\ Len(s) >= 5
    /\ s[1] = "R" /\ s[2] = "i" /\ s[3] \in {"g", "G"}
    /\ s[4] \in {"h", "H"} /\ s[5] \in {"t", "T"}

\* r'^ri[gG][hH][tT]': the second letter is a literal lowercase i.
right_prefix_lowercase_pattern(s) ==
    /\ Len(s) >= 5
    /\ s[1] = "r" /\ s[2] = "i" /\ s[3] \in {"g", "G"}
    /\ s[4] \in {"h", "H"} /\ s[5] \in {"t", "T"}

left_prefix_all_caps_pattern(s) ==
    /\ Len(s) >= 4
    /\ s[1] = "L" /\ s[2] = "E" /\ s[3] \in {"f", "F"} /\ s[4] \in {"t", "T"}

left_prefix_capitalized_pattern(s) ==
    /\ Len(s) >= 4
    /\ s[1] = "L" /\ s[2] = "e" /\ s[3] \in {"f", "F"} /\ s[4] \in {"t", "T"}

left_prefix_lowercase_pattern(s) ==
    /\ Len(s) >= 4
    /\ s[1] = "l" /\ s[2] \in {"e", "E"} /\ s[3] \in {"f", "F"}
    /\ s[4] \in {"t", "T"}

\* One suffix branch: (side, root + replacement, root + mirror_symbol)
SuffixBranch(stem, side, cut, replacement) ==
    LET bone_name_root == DropLast(stem, cut)
    IN  <<side, bone_name_root \o replacement,
          Append(bone_name_root, mirror_symbol)>>

\* One prefix branch: (side, replacement + root, mirror_symbol + root)
PrefixBranch(stem, side, cut, replacement) ==
    LET bone_name_root == DropFirst(stem, cut)
    IN  <<side, replacement \o bone_name_root,
          <<mirror_symbol>> \o bone_name_root>>

\* The suffix branches of parse_bone_name_stem, in the order of the source;
\* None when no suffix branch is taken.
parse_stem_suffix(stem) ==
    IF EndsWithSepLetter(stem, "r")
        THEN SuffixBranch(stem, "right", 1, <<"l">>)
    ELSE IF EndsWithSepLetter(stem, "R")
        THEN SuffixBranch(stem, "right", 1, <<"L">>)
    ELSE IF EndsWithSepLetter(stem, "l")
        THEN SuffixBranch(stem, "left", 1, <<"r">>)
    ELSE IF EndsWithSepLetter(stem, "L")
        THEN SuffixBranch(stem, "left", 1, <<"R">>)
    ELSE IF right_suffix_all_caps_pattern(stem)
        THEN SuffixBranch(stem, "right", right_word_length, <<"L", "E", "F", "T">>)
    ELSE IF right_suffix_capitalized_pattern(stem)
        THEN SuffixBranch(stem, "right", right_word_length, <<"L", "e", "f", "t">>)
    ELSE IF right_suffix_lowercase_pattern(stem)
        THEN SuffixBranch(stem, "right", right_word_length, <<"l", "e", "f", "t">>)
    ELSE IF left_suffix_all_caps_pattern(stem)
        THEN SuffixBranch(stem, "left", left_word_length, <<"R", "I", "G", "H", "T">>)
    ELSE IF left_suffix_capitalized_pattern(stem)
        THEN SuffixBranch(stem, "left", left_word_length, <<"R", "i", "g", "h", "t">>)
    ELSE IF left_suffix_lowercase_pattern(stem)
        THEN SuffixBranch(stem, "left", left_word_length, <<"r", "i", "g", "h", "t">>)
    ELSE None

\* The prefix branches of parse_bone_name_stem, in the order of the source;
\* the last line is the function's final "no side" return.
parse_stem_prefix(stem) ==
    IF StartsWithLetterSep(stem, "R")
        THEN PrefixBranch(stem, "right", 1, <<"L">>)
    ELSE IF StartsWithLetterSep(stem, "r")
        THEN PrefixBranch(stem, "right", 1, <<"l">>)
    ELSE IF StartsWithLetterSep(stem, "L")
        THEN PrefixBranch(stem, "left", 1, <<"R">>)
    ELSE IF StartsWithLetterSep(stem, "l")
        THEN PrefixBranch(stem, "left", 1, <<"r">>)
    ELSE IF right_prefix_all_caps_pattern(stem)
        THEN PrefixBranch(stem, "right", right_word_length, <<"L", "E", "F", "T">>)
    ELSE IF right_prefix_capitalized_pattern(stem)
        THEN PrefixBranch(stem, "right", right_word_length, <<"L", "e", "f", "t">>)
    ELSE IF right_prefix_lowercase_pattern(stem)
        THEN PrefixBranch(stem, "right", right_word_length, <<"l", "e", "f", "t">>)
    ELSE IF left_prefix_all_caps_pattern(stem)
        THEN PrefixBranch(stem, "left", left_word_length, <<"R", "I", "G", "H", "T">>)
    ELSE IF left_prefix_capitalized_pattern(stem)
        THEN PrefixBranch(stem, "left", left_word_length, <<"R", "i", "g", "h", "t">>)
    ELSE IF left_prefix_lowercase_pattern(stem)
        THEN PrefixBranch(stem, "left", left_word_length, <<"r", "i", "g", "h", "t">>)
    ELSE <<"None", stem, stem>>

\* The prefix branches tried before the suffix branches.
parse_bone_name_stem_prefix_first(bone_name_stem) ==
    Let(parse_stem_prefix(bone_name_stem), LAMBDA by_prefix :
        IF by_prefix[1] # "None" THEN by_prefix
        ELSE Let(parse_stem_suffix(bone_name_stem), LAMBDA by_suffix :
                 IF by_suffix # None THEN by_suffix ELSE by_prefix))

\* (bone_side, opposite_bone_name_stem, bilateral_bone_name_stem); the side
\* is "None" for an unsided stem.
parse_bone_name_stem(bone_name_stem) ==
    Let(parse_stem_suffix(bone_name_stem), LAMBDA by_suffix :
        IF by_suffix # None THEN by_suffix ELSE parse_stem_prefix(bone_name_stem))

\* parse_sided_bone_name that appends the numeric suffix to the opposite name
\* only.
parse_sided_bone_name_plain_bilateral(bone_name) ==
    Let(get_name_numeric_suffix(bone_name), LAMBDA bone_name_numeric_suffix :
    Let(parse_bone_name_stem(
            IF bone_name_numeric_suffix # <<>>
            THEN DropLast(bone_name, Len(bone_name_numeric_suffix))
            ELSE bone_name), LAMBDA parsed :
        IF parsed[1] # "None"
        THEN <<parsed[1], parsed[2] \o bone_name_numeric_suffix, parsed[3]>>
        ELSE None))

\* (bone_side, opposite_bone_name, bilateral_bone_name), or None.
parse_sided_bone_name(bone_name) ==
    Let(get_name_numeric_suffix(bone_name), LAMBDA bone_name_numeric_suffix :
    Let(parse_bone_name_stem(
            IF bone_name_numeric_suffix # <<>>
            THEN DropLast(bone_name, Len(bone_name_numeric_suffix))
            ELSE bone_name), LAMBDA parsed :
        IF parsed[1] # "None"
        THEN <<parsed[1], parsed[2] \o bone_name_numeric_suffix,
               parsed[3] \o bone_name_numeric_suffix>>
        ELSE None))

\* Only one of the two "is the opposite of" comparisons.
symmetrically_match_one_way(name_0, name_1) ==
    Let(parse_sided_bone_name(name_0), LAMBDA bone_name_parse_result_0 :
    Let(parse_sided_bone_name(name_1), LAMBDA bone_name_parse_result_1 :
        IF name_0 = name_1
        THEN bone_name_parse_result_0 = None
        ELSE IF bone_name_parse_result_0 = None \/ bone_name_parse_result_1 = None
        THEN FALSE
        ELSE /\ bone_name_parse_result_0[1] # bone_name_parse_result_1[1]
             /\ name_0 = bone_name_parse_result_1[2]))

symmetrically_match_bone_names(name_0, name_1) ==
    Let(parse_sided_bone_name(name_0), LAMBDA bone_name_parse_result_0 :
    Let(parse_sided_bone_name(name_1), LAMBDA bone_name_parse_result_1 :
        IF name_0 = name_1
        THEN bone_name_parse_result_0 = None
        ELSE IF bone_name_parse_result_0 = None \/ bone_name_parse_result_1 = None
        THEN FALSE
        ELSE IF ~ (\/ (bone_name_parse_result_0[1] = "left"
                        /\ bone_name_parse_result_1[1] = "right")
                   \/ (bone_name_parse_result_0[1] = "right"
                        /\ bone_name_parse_result_1[1] = "left"))
        THEN FALSE
        ELSE /\ name_0 = bone_name_parse_result_1[2]
             /\ bone_name_parse_result_0[2] = name_1))

-----------------------------------------------------------------------------
(* The scene: what the analysis reads from Blender                         *)
(*                                                                         *)
(* scene.objects[o] is a scene object: its type, name, parent relation,    *)
(* object-level constraints, bones (armatures) and vertex groups (meshes). *)
(* A bone has a name, a parent bone (None or <<name>>), use_deform and     *)
(* the constraints of its PoseBone.  A constraint has a name, a type, a    *)
(* target (None or <<object>>) and a subtarget string.                     *)

Some(x) == <<x>>

\* armature_object.data.bones, in the armature's bone order
BonesOf(armature_object) == scene.objects[armature_object].bones

\* name in armature_object.data.bones
HasBone(armature_object, name) ==
    \E i \in 1..Len(BonesOf(armature_object)) :
        BonesOf(armature_object)[i].name = name

\* armature_object.data.bones[name]
BoneNamed(armature_object, name) ==
    LET bones == BonesOf(armature_object)
    IN  bones[CHOOSE i \in 1..Len(bones) : bones[i].name = name]

-----------------------------------------------------------------------------
(* analyzebones.py: bone classification *)

match_bone_parents(bone_0, bone_1) ==
    IF bone_0.parent = None THEN bone_1.parent = None
    ELSE IF bone_1.parent = None THEN bone_0.parent = None
    ELSE symmetrically_match_bone_names(bone_0.parent[1], bone_1.parent[1])

\* Subtargets compared as plain strings even inside the owning armature.
match_opposite_constraints_no_mirror(bone_constraint_0, bone_constraint_1, armature_object) ==
    /\ bone_constraint_0.type = bone_constraint_1.type
    /\ bone_constraint_0.target = bone_constraint_1.target
    /\ bone_constraint_0.subtarget = bone_constraint_1.subtarget

match_opposite_constraints(bone_constraint_0, bone_constraint_1, armature_object) ==
    IF bone_constraint_0.type # bone_constraint_1.type THEN FALSE
    ELSE IF bone_constraint_0.target # bone_constraint_1.target THEN FALSE
    ELSE IF bone_constraint_0.target # Some(armature_object)
    THEN bone_constraint_0.subtarget = bone_constraint_1.subtarget
    ELSE symmetrically_match_bone_names(bone_constraint_0.subtarget,
                                        bone_constraint_1.subtarget)

match_bone_constraints(bone_0, bone_1, armature_object) ==
    LET bone_constraint_collection_0 == BoneNamed(armature_object, bone_0.name).constraints
        bone_constraint_collection_1 == BoneNamed(armature_object, bone_1.name).constraints
        num_of_constraints == Len(bone_constraint_collection_0)
    IN  IF num_of_constraints # Len(bone_constraint_collection_1) THEN FALSE
        ELSE \A bone_constraint_index \in 1..num_of_constraints :
                match_opposite_constraints(
                    bone_constraint_collection_0[bone_constraint_index],
                    bone_constraint_collection_1[bone_constraint_index],
                    armature_object)

\* The constraints of the two bones are not compared.
classify_bone_parents_only(bone, armature_object) ==
    Let(parse_sided_bone_name(bone.name), LAMBDA bone_name_parse_result :
        IF bone_name_parse_result = None THEN <<"asymmetric", None, None>>
        ELSE IF /\ HasBone(armature_object, bone_name_parse_result[2])
                /\ match_bone_parents(
                      bone, BoneNamed(armature_object, bone_name_parse_result[2]))
        THEN << IF bone_name_parse_result[1] = "left"
                THEN "left_symmetric" ELSE "right_symmetric",
                bone_name_parse_result[2], bone_name_parse_result[3] >>
        ELSE <<"antisymmetric", bone_name_parse_result[2], bone_name_parse_result[3]>>)

\* (bone_type, opposite_bone_name, bilateral_bone_name)
classify_bone(bone, armature_object) ==
    Let(parse_sided_bone_name(bone.name), LAMBDA bone_name_parse_result :
        IF bone_name_parse_result # None
        THEN LET bone_side == bone_name_parse_result[1]
                 opposite_bone_name == bone_name_parse_result[2]
                 bilateral_bone_name == bone_name_parse_result[3]
             IN  IF HasBone(armature_object, opposite_bone_name)
                 THEN Let(BoneNamed(armature_object, opposite_bone_name), LAMBDA opposite_bone :
                      Let(/\ match_bone_parents(bone, opposite_bone)
                          /\ match_bone_constraints(bone, opposite_bone, armature_object),
                          LAMBDA bone_and_opposite_bone_match :
                          IF bone_and_opposite_bone_match
                          THEN IF bone_side = "left"
                               THEN <<"left_symmetric", opposite_bone_name, bilateral_bone_name>>
                               ELSE <<"right_symmetric", opposite_bone_name, bilateral_bone_name>>
                          ELSE <<"antisymmetric", opposite_bone_name, bilateral_bone_name>>))
                 ELSE <<"antisymmetric", opposite_bone_name, bilateral_bone_name>>
        ELSE <<"asymmetric", None, None>>)

-----------------------------------------------------------------------------
(* analyzebones.py: bone visibility                                        *)
(*                                                                         *)
(* scene.visibility holds what the visibility functions read: context.mode,*)
(* armature_object.data.layers per object, the pairs <<object, bone name>> *)
(* whose bone.hide is set, those whose edit bone's hide is set, and        *)
(* bone.layers per pair.  A layer list is the set of its true positions.   *)

NumLayers == 2

is_bone_hide_set_to_true_in_mode(bone, armature_object, context_mode) ==
    IF context_mode = "EDIT_ARMATURE"
    THEN <<armature_object, bone.name>> \in scene.visibility.edit_hide
    ELSE <<armature_object, bone.name>> \in scene.visibility.hide

is_bone_invisible_without_symmetry(bone, armature_object, context_mode) ==
    IF is_bone_hide_set_to_true_in_mode(bone, armature_object, context_mode)
    THEN TRUE
    ELSE LET bone_layer_visibility_list == scene.visibility.layers[armature_object]
             bone_layer_membership_list ==
                 scene.visibility.bone_layers[<<armature_object, bone.name>>]
         IN  ~ \E layer \in 1..NumLayers :
                   /\ layer \in bone_layer_visibility_list
                   /\ layer \in bone_layer_membership_list

\* are_bone_and_opposite_invisible that does not look at the opposite bone.
are_bone_and_opposite_invisible_bone_only(bone, armature_object, context_mode) ==
    is_bone_invisible_without_symmetry(bone, armature_object, context_mode)

are_bone_and_opposite_invisible(bone, armature_object, context_mode) ==
    IF ~ is_bone_invisible_without_symmetry(bone, armature_object, context_mode)
    THEN FALSE
    ELSE Let(classify_bone(bone, armature_object), LAMBDA classification :
         LET bone_type == classification[1]
             opposite_bone_name == classification[2]
         IN  IF bone_type # "left_symmetric" /\ bone_type # "right_symmetric"
             THEN TRUE
             ELSE is_bone_invisible_without_symmetry(
                      BoneNamed(armature_object, opposite_bone_name),
                      armature_object, context_mode))

-----------------------------------------------------------------------------
(* The universe of names the name analysis is applied to *)

LetterMarkerLetters == {"r", "R", "l", "L"}

RightWords ==
    { <<a, b, c, d, e>> : a \in {"r", "R"}, b \in {"i", "I"}, c \in {"g", "G"},
                          d \in {"h", "H"}, e \in {"t", "T"} }

LeftWords ==
    { <<a, b, c, d>> : a \in {"l", "L"}, b \in {"e", "E"}, c \in {"f", "F"},
                       d \in {"t", "T"} }

CanonicalWords ==
    { <<"R", "I", "G", "H", "T">>, <<"R", "i", "g", "h", "t">>,
      <<"r", "i", "g", "h", "t">>, <<"L", "E", "F", "T">>,
      <<"L", "e", "f", "t">>, <<"l", "e", "f", "t">> }

SuffixLetterMarkers == { <<sep, c>> : sep \in Separators, c \in LetterMarkerLetters }
PrefixLetterMarkers == { <<c, sep>> : sep \in Separators, c \in LetterMarkerLetters }

SuffixMarkers == SuffixLetterMarkers \cup RightWords \cup LeftWords
PrefixMarkers == PrefixLetterMarkers \cup RightWords \cup LeftWords

\* Filler between the markers: runs of "x" of length 0..MaxRootLen.
RECURSIVE Filler(_)
Filler(n) == IF n = 0 THEN <<>> ELSE Append(Filler(n - 1), "x")
Roots == { Filler(n) : n \in 0..MaxRootLen }

NumericSuffixes == { <<>>, <<".", "0", "0", "1">> }

\* Every name: optional prefix marker, filler, optional suffix marker,
\* optional numeric suffix.
Names ==
    { p \o r \o s \o n : p \in PrefixMarkers \cup {<<>>}, r \in Roots,
                         s \in SuffixMarkers \cup {<<>>}, n \in NumericSuffixes }

\* Names with digits: numeric suffixes of several lengths, digits that are no
\* numeric suffix, and a marker that shows only once the suffix is stripped.
NumberedNames ==
    { <<"A", "r", "m", ".", "R", ".", "0", "0", "3">>,
      <<"A", "r", "m", ".", "L", ".", "1", "2">>,
      <<"A", "r", "m", ".", "0", "0", "3">>,
      <<"A", "r", "m", ".", "R", "0", "0", "3">>,
      <<"A", "r", "m", ".", "R", ".", "1", ".", "2">>,
      <<"A", "r", "m", ".", "R", ".">>,
      <<"A", "r", "m", ".", "R", ".", "0", "a">>,
      <<"L", "e", "f", "t", "A", "r", "m", ".", "7">>,
      <<"R", ".", "0", "0", "1">>,
      <<".", "R", ".", "0">>,
      <<".", "0", "0", "1">>,
      <<"0", "0", "1">>,
      <<"R", "_", "9", ".", "L", ".", "0", "4", "5", "6">> }

\* The names used in pairs: one marker at most, the two separators "." and
\* "_", the canonical spellings and some mixed-case ones.
PairWords ==
    CanonicalWords \cup
    { <<"R", "i", "G", "H", "T">>, <<"r", "I", "g", "h", "t">>,
      <<"R", "I", "g", "h", "t">>, <<"L", "e", "F", "T">>,
      <<"l", "E", "f", "t">> }
PairSuffixMarkers ==
    { <<sep, c>> : sep \in {".", "_"}, c \in LetterMarkerLetters } \cup PairWords
PairPrefixMarkers ==
    { <<c, sep>> : sep \in {".", "_"}, c \in LetterMarkerLetters } \cup PairWords
PairNames ==
    { m[1] \o r \o m[2] \o n :
        m \in ({<<>>} \X (PairSuffixMarkers \cup {<<>>}))
              \cup (PairPrefixMarkers \X {<<>>}),
        r \in Roots, n \in NumericSuffixes }

-----------------------------------------------------------------------------
(* Applying the name analysis *)

NameIdle ==
    /\ bone_name_0 = <<>>
    /\ bone_name_1 = <<>>
    /\ name_op = "idle"
    /\ name_result_0 = None
    /\ name_result_1 = None

\* No scene is read by the name functions.
NoScene == [objects |-> <<>>]

BoneIdle ==
    /\ bone_op = "idle"
    /\ bone_args = <<>>
    /\ bone_result = None

\* initialize_graph_data()
initialize_graph_data ==
    [ free_nodes |-> {},
      cluster_nodes_dict |-> <<>>,
      edge_tuple_dict |-> <<>>,
      entity_label_dict |-> <<>>,
      entity_categories_dict |-> <<>> ]

\* save_files was not called.
SaveIdle ==
    /\ save_args = <<>>
    /\ save_pc = "idle"
    /\ file_system = <<>>
    /\ save_raised = <<>>
    /\ save_log = <<>>

\* No create_dot_* function was called.
RenderIdle ==
    /\ dot_args = <<>>
    /\ dot_op = "idle"
    /\ dot_entity = 0
    /\ dot_text = <<>>

GraphIdle ==
    /\ blender_structs = <<>>
    /\ excluded_bones = {}
    /\ pc = "idle"
    /\ index = 0
    /\ fresh_ids = 0
    /\ struct_entity_id_dict = <<>>
    /\ struct_cluster_id_dict = <<>>
    /\ graph_data = initialize_graph_data
    /\ id_log = <<>>

\* --- parsing one name ---

InitParse ==
    /\ bone_name_0 \in Names \cup NumberedNames
    /\ bone_name_1 = <<>>
    /\ name_op = "init"
    /\ name_result_0 = None
    /\ name_result_1 = None
    /\ scene = NoScene
    /\ BoneIdle
    /\ GraphIdle
    /\ RenderIdle
    /\ SaveIdle

\* parse_bone_name_stem(bone_name_0)
ParseStem ==
    /\ name_op = "init"
    /\ name_result_0' = parse_bone_name_stem(bone_name_0)
    /\ name_op' = "stem"
    /\ UNCHANGED <<save_vars, render_vars, bone_name_0, bone_name_1, name_result_1, scene, bone_vars, graph_vars>>

\* parse_sided_bone_name(bone_name_0)
ParseName ==
    /\ name_op = "init"
    /\ name_result_0' = parse_sided_bone_name(bone_name_0)
    /\ name_op' = "parse"
    /\ UNCHANGED <<save_vars, render_vars, bone_name_0, bone_name_1, name_result_1, scene, bone_vars, graph_vars>>

\* parse_sided_bone_name(opposite_bone_name) on the opposite name returned
\* for bone_name_0
ParseOpposite ==
    /\ name_op = "parse"
    /\ name_result_0 # None
    /\ bone_name_1' = name_result_0[2]
    /\ name_result_1' = parse_sided_bone_name(name_result_0[2])
    /\ name_op' = "parse_opposite"
    /\ UNCHANGED <<save_vars, render_vars, bone_name_0, name_result_0, scene, bone_vars, graph_vars>>

NextParse == ParseStem \/ ParseName \/ ParseOpposite

SpecParse == InitParse /\ [][NextParse]_vars

\* --- matching two names ---

InitMatch ==
    /\ bone_name_0 \in PairNames
    /\ bone_name_1 \in PairNames
    /\ name_op = "init"
    /\ name_result_0 = None
    /\ name_result_1 = None
    /\ scene = NoScene
    /\ BoneIdle
    /\ GraphIdle
    /\ RenderIdle
    /\ SaveIdle

\* symmetrically_match_bone_names(bone_name_0, bone_name_1)
MatchNames ==
    /\ name_op = "init"
    /\ name_result_0' = symmetrically_match_bone_names(bone_name_0, bone_name_1)
    /\ name_op' = "match"
    /\ UNCHANGED <<save_vars, render_vars, bone_name_0, bone_name_1, name_result_1, scene, bone_vars, graph_vars>>

\* symmetrically_match_bone_names(bone_name_1, bone_name_0)
MatchNamesSwapped ==
    /\ name_op = "match"
    /\ name_result_1' = symmetrically_match_bone_names(bone_name_1, bone_name_0)
    /\ name_op' = "match_both"
    /\ UNCHANGED <<save_vars, render_vars, bone_name_0, bone_name_1, name_result_0, scene, bone_vars, graph_vars>>

NextMatch == MatchNames \/ MatchNamesSwapped

SpecMatch == InitMatch /\ [][NextMatch]_vars

-----------------------------------------------------------------------------
(* Scenes: the literals they are built from *)

Name ==
    [ HandL |-> <<"H", "a", "n", "d", ".", "L">>,
      HandR |-> <<"H", "a", "n", "d", ".", "R">>,
      Hand |-> <<"H", "a", "n", "d">>,
      FootR |-> <<"F", "o", "o", "t", ".", "R">>,
      Spine |-> <<"S", "p", "i", "n", "e">>,
      ShoulderL |-> <<"S", "h", "o", "u", "l", "d", "e", "r", ".", "L">>,
      ShoulderR |-> <<"S", "h", "o", "u", "l", "d", "e", "r", ".", "R">>,
      ArmL |-> <<"A", "r", "m", ".", "L">>,
      ArmR |-> <<"A", "r", "m", ".", "R">>,
      LegL |-> <<"L", "e", "g", ".", "L">>,
      LegR |-> <<"L", "e", "g", ".", "R">>,
      Rig |-> <<"R", "i", "g">>,
      Other |-> <<"O", "t", "h", "e", "r">>,
      Target |-> <<"T", "a", "r", "g", "e", "t">>,
      Empty |-> <<"E", "m", "p", "t", "y">>,
      IK |-> <<"I", "K">>,
      Copy |-> <<"C", "o", "p", "y">>,
      Group |-> <<"G", "r", "o", "u", "p">>,
      XRiGHT |-> <<"x", " ", "R", "i", "G", "H", "T">>,
      XRight |-> <<"x", " ", "R", "i", "g", "h", "t">>,
      XLeft |-> <<"x", " ", "L", "e", "f", "t">>,
      XLeFT |-> <<"x", " ", "L", "e", "F", "T">>,
      Blank |-> <<>> ]

Objects == {"Rig", "Other", "Target", "Empty"}

Constraint(name, type, target, subtarget) ==
    [name |-> name, type |-> type, target |-> target, subtarget |-> subtarget]

Bone(name, parent, use_deform, constraints) ==
    [name |-> name, parent |-> parent, use_deform |-> use_deform,
     constraints |-> constraints]

SceneObject(type, name, bones) ==
    [type |-> type, name |-> name, parent |-> None, parent_type |-> "OBJECT",
     parent_bone |-> Name.Blank, constraints |-> <<>>, bones |-> bones,
     vertex_groups |-> <<>>]

\* Sequences over a set, of length at most n.
RECURSIVE SeqsUpTo(_, _)
SeqsUpTo(S, n) ==
    IF n = 0 THEN {<<>>}
    ELSE LET shorter == SeqsUpTo(S, n - 1)
         IN  shorter \cup { Append(q, x) : q \in shorter, x \in S }

-----------------------------------------------------------------------------
(* The scenes bone classification is applied to: the armature "Rig" with   *)
(* two bones under test and the bones Spine, Shoulder.L, Shoulder.R that   *)
(* serve as parents.                                                       *)

\* Longest constraint list of a bone under test.
MaxClassifyConstraints == 2

\* The constraints a bone under test may carry: no target; an outside
\* object; an outside armature with a sided subtarget; the owning armature
\* with a left, right, unsided and blank subtarget; another type; another
\* constraint name.
ClassifyConstraints ==
    { Constraint(Name.IK, "LIMIT_ROTATION", None, Name.Blank),
      Constraint(Name.IK, "COPY_ROTATION", Some("Target"), Name.Blank),
      Constraint(Name.IK, "COPY_ROTATION", Some("Other"), Name.Blank),
      Constraint(Name.IK, "COPY_ROTATION", Some("Other"), Name.LegL),
      Constraint(Name.IK, "COPY_ROTATION", Some("Other"), Name.LegR),
      Constraint(Name.IK, "COPY_ROTATION", Some("Rig"), Name.ArmL),
      Constraint(Name.IK, "COPY_ROTATION", Some("Rig"), Name.ArmR),
      Constraint(Name.IK, "COPY_ROTATION", Some("Rig"), Name.Spine),
      Constraint(Name.IK, "COPY_ROTATION", Some("Rig"), Name.Blank),
      Constraint(Name.IK, "IK", Some("Target"), Name.Blank),
      Constraint(Name.Copy, "COPY_ROTATION", Some("Target"), Name.Blank) }

\* The constraints that may come before the last one of a list.
ClassifyLeadingConstraints ==
    { Constraint(Name.IK, "LIMIT_ROTATION", None, Name.Blank),
      Constraint(Name.IK, "COPY_ROTATION", Some("Rig"), Name.ArmL) }

ClassifyConstraintLists ==
    { lead \o last :
        lead \in SeqsUpTo(ClassifyLeadingConstraints, MaxClassifyConstraints - 1),
        last \in {<<>>} \cup { <<c>> : c \in ClassifyConstraints } }

ClassifyShortLists ==
    { <<>>, <<Constraint(Name.IK, "COPY_ROTATION", Some("Target"), Name.Blank)>> }

ClassifyParents ==
    { None, Some(Name.Spine), Some(Name.ShoulderL), Some(Name.ShoulderR) }

ClassifyNamePairs ==
    { <<Name.HandL, Name.HandR>>, <<Name.HandL, Name.FootR>>,
      <<Name.Hand, Name.HandR>> }

ClassifyScene(name_0, parent_0, constraints_0, name_1, parent_1, constraints_1) ==
    [objects |->
        [o \in Objects |->
            IF o = "Rig"
            THEN SceneObject("ARMATURE", Name.Rig,
                    << Bone(name_0, parent_0, TRUE, constraints_0),
                       Bone(name_1, parent_1, TRUE, constraints_1),
                       Bone(Name.Spine, None, TRUE, <<>>),
                       Bone(Name.ShoulderL, Some(Name.Spine), TRUE, <<>>),
                       Bone(Name.ShoulderR, Some(Name.Spine), TRUE, <<>>) >>)
            ELSE IF o = "Other"
            THEN SceneObject("ARMATURE", Name.Other,
                    << Bone(Name.LegL, None, TRUE, <<>>),
                       Bone(Name.LegR, None, TRUE, <<>>) >>)
            ELSE IF o = "Target"
            THEN SceneObject("MESH", Name.Target, <<>>)
            ELSE SceneObject("EMPTY", Name.Empty, <<>>)]]

ClassifyScenes ==
    { ClassifyScene(Name.HandL, None, c0, Name.HandR, None, c1) :
        c0 \in ClassifyConstraintLists, c1 \in ClassifyConstraintLists }
    \cup
    { ClassifyScene(n[1], p0, c0, n[2], p1, c1) :
        n \in ClassifyNamePairs, p0 \in ClassifyParents, p1 \in ClassifyParents,
        c0 \in ClassifyShortLists, c1 \in ClassifyShortLists }

InitClassify ==
    /\ scene \in ClassifyScenes
    /\ bone_op = "init"
    /\ bone_args = <<>>
    /\ bone_result = None
    /\ NameIdle
    /\ GraphIdle
    /\ RenderIdle
    /\ SaveIdle

\* classify_bone(bone, armature_object) for a bone of the armature "Rig"
ClassifyBone ==
    /\ bone_op = "init"
    /\ \E i \in 1..Len(BonesOf("Rig")) :
          /\ bone_args' = <<BonesOf("Rig")[i].name>>
          /\ bone_result' = classify_bone(BonesOf("Rig")[i], "Rig")
    /\ bone_op' = "classify"
    /\ UNCHANGED <<save_vars, render_vars, name_vars, scene, graph_vars>>

\* match_bone_constraints(bone_0, bone_1, armature_object) for the bones
\* under test
MatchBoneConstraints ==
    /\ bone_op = "init"
    /\ \E i \in 1..2, j \in 1..2 :
          /\ bone_args' = <<BonesOf("Rig")[i].name, BonesOf("Rig")[j].name>>
          /\ bone_result' =
                match_bone_constraints(BonesOf("Rig")[i], BonesOf("Rig")[j], "Rig")
    /\ bone_op' = "match_constraints"
    /\ UNCHANGED <<save_vars, render_vars, name_vars, scene, graph_vars>>

\* match_bone_parents(bone_0, bone_1) for the bones under test
MatchBoneParents ==
    /\ bone_op = "init"
    /\ \E i \in 1..2, j \in 1..2 :
          /\ bone_args' = <<BonesOf("Rig")[i].name, BonesOf("Rig")[j].name>>
          /\ bone_result' = match_bone_parents(BonesOf("Rig")[i], BonesOf("Rig")[j])
    /\ bone_op' = "match_parents"
    /\ UNCHANGED <<save_vars, render_vars, name_vars, scene, graph_vars>>

NextClassify == ClassifyBone \/ MatchBoneConstraints \/ MatchBoneParents

SpecClassify == InitClassify /\ [][NextClassify]_vars

-----------------------------------------------------------------------------
(* analyzerigs.py: identities, dictionaries and the state of a build        *)
(*                                                                         *)
(* A Blender struct used as a dictionary key is modelled by its identity:  *)
(* <<kind, object, name, position>>.  A bone belongs to the armature       *)
(* object whose bones list holds it; a constraint is identified by its     *)
(* owner (an object, or a bone of an object) and its position in the       *)
(* owner's constraint list.                                                *)
(*                                                                         *)
(* The two registries are Python dicts iterated by the later passes, so    *)
(* they are sequences of <<key, id>> in insertion order.  The dicts of     *)
(* graph_data are functions from entity IDs.                               *)

ObjectKey(object) == <<"object", object, Name.Blank, 0>>
BoneKey(armature_object, name) == <<"bone", armature_object, name, 0>>
VertexGroupKey(object, name) == <<"vertex_group", object, name, 0>>
ConstraintKey(owner, i) == <<"constraint", owner[2], owner[3], i>>

\* owner.constraints, each constraint carrying its identity
ConstraintsOf(owner, constraints) ==
    [ i \in 1..Len(constraints) |->
        [ key |-> ConstraintKey(owner, i),
          name |-> constraints[i].name,
          type |-> constraints[i].type,
          target |-> constraints[i].target,
          subtarget |-> constraints[i].subtarget ] ]

\* d[k] = v
DictSet(d, k, v) == [ x \in DOMAIN d \cup {k} |-> IF x = k THEN v ELSE d[x] ]

\* key_id_dict.get(key)
RegistryGet(key_id_dict, key) ==
    IF \E i \in 1..Len(key_id_dict) : key_id_dict[i][1] = key
    THEN Some(key_id_dict[CHOOSE i \in 1..Len(key_id_dict) :
                            key_id_dict[i][1] = key][2])
    ELSE None

\* del key_id_dict[key]
RegistryDel(key_id_dict, key) ==
    SelectSeq(key_id_dict, LAMBDA item : item[1] # key)

\* A Python tuple of category names, and a Python str used as categories.
\* "x in categories" is membership for a tuple and substring search for a str.
Tuple(items) == [is_tuple |-> TRUE, items |-> items, text |-> <<>>]
Str(text) == [is_tuple |-> FALSE, items |-> <<>>, text |-> text]

Text ==
    [ bone |-> <<"b", "o", "n", "e">>,
      head |-> <<"h", "e", "a", "d">>,
      armature_head |-> <<"a", "r", "m", "a", "t", "u", "r", "e", "_",
                           "h", "e", "a", "d">>,
      mesh_head |-> <<"m", "e", "s", "h", "_", "h", "e", "a", "d">>,
      vertex_group |-> <<"v", "e", "r", "t", "e", "x", "_",
                          "g", "r", "o", "u", "p">>,
      bullet |-> <<"BULLET">>,
      Legend |-> <<"L", "e", "g", "e", "n", "d">>,
      Parent |-> <<"P", "a", "r", "e", "n", "t">>,
      Child |-> <<"C", "h", "i", "l", "d">>,
      Subject |-> <<"S", "u", "b", "j", "e", "c", "t">>,
      Constraint |-> <<"C", "o", "n", "s", "t", "r", "a", "i", "n", "t">>,
      DeformingBone |-> <<"D", "e", "f", "o", "r", "m", "i", "n", "g", " ",
                           "B", "o", "n", "e">>,
      Root |-> <<"R", "o", "o", "t">>,
      SymmetricBone |-> <<"S", "y", "m", "m", "e", "t", "r", "i", "c", " ",
                           "B", "o", "n", "e", ".">>,
      SymmetryBreakingBone |-> <<"S", "y", "m", "m", "e", "t", "r", "y", "-",
                                  "B", "r", "e", "a", "k", "i", "n", "g", " ",
                                  "B", "o", "n", "e">> ]

IsSubstring(text, whole) ==
    \E i \in 0..(Len(whole) - Len(text)) :
        SubSeq(whole, i + 1, i + Len(text)) = text

\* tag in categories
InCategories(tag, categories) ==
    IF categories.is_tuple
    THEN \E i \in 1..Len(categories.items) : categories.items[i] = tag
    ELSE IsSubstring(Text[tag], categories.text)

\* The state the declare_* functions work on, with the value the last call
\* returned (None or <<id>>).
BuildState ==
    [ fresh_ids |-> fresh_ids,
      struct_entity_id_dict |-> struct_entity_id_dict,
      struct_cluster_id_dict |-> struct_cluster_id_dict,
      graph_data |-> graph_data,
      id_log |-> id_log,
      ret |-> None ]

\* The state before a build: analyze_rig_graph and create_legend_data start
\* with a new counter, empty registries and an empty graph.
NewBuild ==
    [ fresh_ids |-> 0,
      struct_entity_id_dict |-> <<>>,
      struct_cluster_id_dict |-> <<>>,
      graph_data |-> initialize_graph_data,
      id_log |-> <<>>,
      ret |-> None ]

Return(s, value) == [s EXCEPT !.ret = value]

-----------------------------------------------------------------------------
(* analyzerigs.py: declaring clusters, nodes and edges *)

\* declare_entity_id without the registry: every call takes a fresh ID.
declare_entity_id_unregistered(s, key_id_dict, key) ==
    [s EXCEPT !.fresh_ids = @ + 1,
              !.id_log = Append(@, <<key_id_dict, key, s.fresh_ids>>),
              !.ret = Some(s.fresh_ids)]

\* key_id_dict names the registry: "struct_entity_id_dict" or
\* "struct_cluster_id_dict".
declare_entity_id(s, key_id_dict, key) ==
    IF key = None
    THEN [s EXCEPT !.fresh_ids = @ + 1,
                   !.id_log = Append(@, <<key_id_dict, key, s.fresh_ids>>),
                   !.ret = Some(s.fresh_ids)]
    ELSE LET existing_id == RegistryGet(s[key_id_dict], key)
         IN  IF existing_id # None
             THEN [s EXCEPT !.id_log = Append(@, <<key_id_dict, key, existing_id[1]>>),
                            !.ret = existing_id]
             ELSE [s EXCEPT ![key_id_dict] = Append(@, <<key, s.fresh_ids>>),
                            !.fresh_ids = @ + 1,
                            !.id_log = Append(@, <<key_id_dict, key, s.fresh_ids>>),
                            !.ret = Some(s.fresh_ids)]

\* blender_struct.name of an object
ObjectName(blender_struct) == scene.objects[blender_struct[2]].name

declare_cluster(s, blender_struct, label) ==
    Let(declare_entity_id(s, "struct_cluster_id_dict", blender_struct), LAMBDA s1 :
        LET cluster_id == s1.ret[1]
            child_node_id_set ==
                IF cluster_id \in DOMAIN s1.graph_data.cluster_nodes_dict
                THEN s1.graph_data.cluster_nodes_dict[cluster_id]
                ELSE {}
            cluster_label ==
                IF label = None /\ blender_struct # None
                THEN Some(ObjectName(blender_struct))
                ELSE label
        IN  [s1 EXCEPT
                !.graph_data.cluster_nodes_dict =
                    DictSet(@, cluster_id, child_node_id_set),
                !.graph_data.entity_label_dict =
                    DictSet(@, cluster_id, cluster_label),
                !.ret = Some(cluster_id)])

\* declare_node with the test on cluster_id dropped from the free_nodes
\* branch: a node of a cluster is added to free_nodes too.
declare_node_also_free(s, blender_struct, cluster_id, label, categories) ==
    Let(declare_entity_id(s, "struct_entity_id_dict", blender_struct), LAMBDA s1 :
        LET node_id == s1.ret[1]
        IN  [s1 EXCEPT
                !.graph_data.cluster_nodes_dict =
                    IF cluster_id # None
                    THEN [@ EXCEPT ![cluster_id[1]] = @ \cup {node_id}]
                    ELSE @,
                !.graph_data.free_nodes = @ \cup {node_id},
                !.graph_data.entity_label_dict =
                    IF label # None THEN DictSet(@, node_id, label) ELSE @,
                !.graph_data.entity_categories_dict =
                    IF categories # None
                    THEN DictSet(@, node_id, categories[1])
                    ELSE @,
                !.ret = Some(node_id)])

\* cluster_id, label and categories are None or <<value>>
declare_node(s, blender_struct, cluster_id, label, categories) ==
    Let(declare_entity_id(s, "struct_entity_id_dict", blender_struct), LAMBDA s1 :
        LET node_id == s1.ret[1]
        IN  [s1 EXCEPT
                !.graph_data.cluster_nodes_dict =
                    IF cluster_id # None
                    THEN [@ EXCEPT ![cluster_id[1]] = @ \cup {node_id}]
                    ELSE @,
                !.graph_data.free_nodes =
                    IF cluster_id # None THEN @ ELSE @ \cup {node_id},
                !.graph_data.entity_label_dict =
                    IF label # None THEN DictSet(@, node_id, label) ELSE @,
                !.graph_data.entity_categories_dict =
                    IF categories # None
                    THEN DictSet(@, node_id, categories[1])
                    ELSE @,
                !.ret = Some(node_id)])

\* declare_edge that does not pass the constraint as the key: every call
\* makes a new edge.
declare_edge_without_key(s, blender_struct, origin_node_id, destination_node_id, label, categories) ==
    Let(declare_entity_id(s, "struct_entity_id_dict", None), LAMBDA s1 :
        LET edge_id == s1.ret[1]
        IN  [s1 EXCEPT
                !.graph_data.edge_tuple_dict =
                    DictSet(@, edge_id, <<origin_node_id, destination_node_id>>),
                !.graph_data.entity_label_dict =
                    IF label # None THEN DictSet(@, edge_id, label) ELSE @,
                !.graph_data.entity_categories_dict =
                    IF categories # None
                    THEN DictSet(@, edge_id, categories[1])
                    ELSE @,
                !.ret = Some(edge_id)])

declare_edge(s, blender_struct, origin_node_id, destination_node_id, label, categories) ==
    Let(declare_entity_id(s, "struct_entity_id_dict", blender_struct), LAMBDA s1 :
        LET edge_id == s1.ret[1]
        IN  [s1 EXCEPT
                !.graph_data.edge_tuple_dict =
                    DictSet(@, edge_id, <<origin_node_id, destination_node_id>>),
                !.graph_data.entity_label_dict =
                    IF label # None THEN DictSet(@, edge_id, label) ELSE @,
                !.graph_data.entity_categories_dict =
                    IF categories # None
                    THEN DictSet(@, edge_id, categories[1])
                    ELSE @,
                !.ret = Some(edge_id)])

declare_free_node(s, blender_struct) ==
    declare_node(s, blender_struct, None,
                 Some(ObjectName(blender_struct)), Some(Tuple(<<"free">>)))

declare_head_node(s, blender_struct, categories) ==
    Let(declare_cluster(s, blender_struct, None), LAMBDA s1 :
        declare_node(s1, blender_struct, s1.ret, Some(Text.bullet), Some(categories)))

-----------------------------------------------------------------------------
(* analyzerigs.py: declaring the entities of a destination *)

\* The predicate handed to analyze_rig_graph.
is_bone_excluded(bone, armature_object) ==
    <<armature_object, bone.name>> \in excluded_bones

\* declare_plain_bone_node that does not ask is_bone_excluded.
declare_plain_bone_node_unfiltered(s, bone, armature_object, right_symmetric_bones_are_excluded) ==
    Let(classify_bone(bone, armature_object), LAMBDA classification :
        IF right_symmetric_bones_are_excluded /\ classification[1] = "right_symmetric"
        THEN Return(s, None)
        ELSE Let(declare_cluster(s, ObjectKey(armature_object), None), LAMBDA s1 :
                 declare_node(
                     s1, BoneKey(armature_object, bone.name), s1.ret,
                     Some(IF classification[1] = "left_symmetric"
                          THEN classification[3] ELSE bone.name),
                     Some(Tuple(<< "bone",
                                   IF bone.use_deform THEN "deforming" ELSE "",
                                   classification[1] >>)))))

\* declare_plain_bone_node that leaves out right_symmetric bones whatever
\* right_symmetric_bones_are_excluded says.
declare_plain_bone_node_right_never_declared(s, bone, armature_object, right_symmetric_bones_are_excluded) ==
    IF is_bone_excluded(bone, armature_object)
    THEN Return(s, None)
    ELSE Let(classify_bone(bone, armature_object), LAMBDA classification :
         IF classification[1] = "right_symmetric"
         THEN Return(s, None)
         ELSE Let(declare_cluster(s, ObjectKey(armature_object), None), LAMBDA s1 :
                  declare_node(
                      s1, BoneKey(armature_object, bone.name), s1.ret,
                      Some(IF classification[1] = "left_symmetric"
                           THEN classification[3] ELSE bone.name),
                      Some(Tuple(<< "bone",
                                    IF bone.use_deform THEN "deforming" ELSE "",
                                    classification[1] >>)))))

\* A variant of declare_plain_bone_node that declares right_symmetric bones
\* like all others.
declare_plain_bone_node_right_always_declared(s, bone, armature_object, right_symmetric_bones_are_excluded) ==
    IF is_bone_excluded(bone, armature_object)
    THEN Return(s, None)
    ELSE Let(classify_bone(bone, armature_object), LAMBDA classification :
         Let(declare_cluster(s, ObjectKey(armature_object), None), LAMBDA s1 :
             declare_node(
                 s1, BoneKey(armature_object, bone.name), s1.ret,
                 Some(IF classification[1] = "left_symmetric"
                      THEN classification[3] ELSE bone.name),
                 Some(Tuple(<< "bone",
                               IF bone.use_deform THEN "deforming" ELSE "",
                               classification[1] >>)))))

declare_plain_bone_node(s, bone, armature_object, right_symmetric_bones_are_excluded) ==
    IF is_bone_excluded(bone, armature_object)
    THEN Return(s, None)
    ELSE Let(classify_bone(bone, armature_object), LAMBDA classification :
         LET bone_type == classification[1]
             bilateral_bone_name == classification[3]
             bone_label ==
                 IF bone_type = "left_symmetric"
                 THEN bilateral_bone_name
                 ELSE bone.name
         IN  IF right_symmetric_bones_are_excluded /\ bone_type = "right_symmetric"
             THEN Return(s, None)
             ELSE Let(declare_cluster(s, ObjectKey(armature_object), None), LAMBDA s1 :
                      declare_node(
                          s1, BoneKey(armature_object, bone.name), s1.ret,
                          Some(bone_label),
                          Some(Tuple(<< "bone",
                                        IF bone.use_deform THEN "deforming" ELSE "",
                                        bone_type >>)))))

RECURSIVE declare_destination_entities(_, _, _, _, _, _)

\* The loop of declare_constraint_edges from the i-th constraint on.
\* home_armature_object is None or <<object>>.
RECURSIVE declare_constraint_edges_loop(_, _, _, _, _)
declare_constraint_edges_loop(s, origin_node_id, constraints, home_armature_object, i) ==
    IF i > Len(constraints)
    THEN Return(s, None)
    ELSE IF constraints[i].target = None
    THEN Return(s, None)       \* break
    ELSE Let(declare_destination_entities(
                 s, constraints[i].target[1], constraints[i].subtarget, FALSE, FALSE,
                 home_armature_object # None
                     /\ constraints[i].target = home_armature_object), LAMBDA s1 :
         Let(IF s1.ret # None
             THEN declare_edge(s1, constraints[i].key, origin_node_id, s1.ret[1],
                               Some(constraints[i].name),
                               Some(Tuple(<<"constraint">>)))
             ELSE s1, LAMBDA s2 :
         declare_constraint_edges_loop(
             s2, origin_node_id, constraints, home_armature_object, i + 1)))

declare_constraint_edges(s, origin_node_id, constraints, home_armature_object) ==
    declare_constraint_edges_loop(s, origin_node_id, constraints, home_armature_object, 1)

\* The function ends without a return statement: it returns None also when
\* the node was declared.
declare_constrained_bone_node(s, bone, armature_object, right_symmetric_bones_are_excluded) ==
    Let(declare_plain_bone_node(s, bone, armature_object,
                                right_symmetric_bones_are_excluded), LAMBDA s1 :
        IF s1.ret = None
        THEN s1
        ELSE Return(
                 declare_constraint_edges(
                     s1, s1.ret[1],
                     ConstraintsOf(BoneKey(armature_object, bone.name), bone.constraints),
                     Some(armature_object)),
                 None))

\* declare_bone_node as chosen by declare_armature_entities
declare_bone_node(s, bone, armature_object, constraints_are_included, right_symmetric_bones_are_excluded) ==
    IF constraints_are_included
    THEN declare_constrained_bone_node(s, bone, armature_object,
                                       right_symmetric_bones_are_excluded)
    ELSE declare_plain_bone_node(s, bone, armature_object,
                                 right_symmetric_bones_are_excluded)

\* for bone in target.data.bones, from the i-th bone on
RECURSIVE declare_contained_bones(_, _, _, _, _)
declare_contained_bones(s, target, constraints_are_included, right_symmetric_bones_are_excluded, i) ==
    IF i > Len(BonesOf(target))
    THEN s
    ELSE Let(declare_bone_node(s, BonesOf(target)[i], target,
                               constraints_are_included,
                               right_symmetric_bones_are_excluded), LAMBDA s1 :
             declare_contained_bones(s1, target, constraints_are_included,
                                     right_symmetric_bones_are_excluded, i + 1))

\* declare_armature_entities that declares the contained bones whatever
\* contained_bones_are_included says.
declare_armature_entities_with_bones(s, target, subtarget_name, constraints_are_included, contained_bones_are_included, right_symmetric_bones_are_excluded) ==
    IF subtarget_name # Name.Blank
    THEN declare_bone_node(s, BoneNamed(target, subtarget_name), target,
                           constraints_are_included,
                           right_symmetric_bones_are_excluded)
    ELSE Let(declare_head_node(s, ObjectKey(target), Str(Text.armature_head)), LAMBDA s1 :
         Let(IF constraints_are_included
             THEN declare_constraint_edges(
                      s1, s1.ret[1],
                      ConstraintsOf(ObjectKey(target), scene.objects[target].constraints),
                      None)
             ELSE s1, LAMBDA s2 :
         Return(declare_contained_bones(
                    s2, target, constraints_are_included,
                    right_symmetric_bones_are_excluded, 1),
                s1.ret)))

declare_armature_entities(s, target, subtarget_name, constraints_are_included, contained_bones_are_included, right_symmetric_bones_are_excluded) ==
    IF subtarget_name # Name.Blank
    THEN declare_bone_node(s, BoneNamed(target, subtarget_name), target,
                           constraints_are_included,
                           right_symmetric_bones_are_excluded)
    ELSE Let(declare_head_node(s, ObjectKey(target), Str(Text.armature_head)), LAMBDA s1 :
         Let(IF constraints_are_included
             THEN declare_constraint_edges(
                      s1, s1.ret[1],
                      ConstraintsOf(ObjectKey(target), scene.objects[target].constraints),
                      None)
             ELSE s1, LAMBDA s2 :
         Let(IF contained_bones_are_included
             THEN declare_contained_bones(
                      s2, target, constraints_are_included,
                      right_symmetric_bones_are_excluded, 1)
             ELSE s2, LAMBDA s3 :
         Return(s3, s1.ret))))

declare_mesh_entities(s, target, subtarget_name, constraints_are_included) ==
    Let(declare_cluster(s, ObjectKey(target), None), LAMBDA s1 :
    Let(declare_head_node(s1, ObjectKey(target), Str(Text.mesh_head)), LAMBDA s2 :
        IF subtarget_name # Name.Blank
        THEN declare_node(s2, VertexGroupKey(target, subtarget_name), s1.ret,
                          Some(subtarget_name), Some(Str(Text.vertex_group)))
        ELSE IF constraints_are_included
        THEN Return(
                 declare_constraint_edges(
                     s2, s2.ret[1],
                     ConstraintsOf(ObjectKey(target), scene.objects[target].constraints),
                     None),
                 s2.ret)
        ELSE Return(s2, s2.ret)))

declare_destination_entities(s, target, subtarget_name, contained_bones_are_included, constraints_are_included, right_symmetric_bones_are_excluded) ==
    IF scene.objects[target].type = "ARMATURE"
    THEN declare_armature_entities(
             s, target, subtarget_name, constraints_are_included,
             contained_bones_are_included, right_symmetric_bones_are_excluded)
    ELSE IF scene.objects[target].type = "MESH"
    THEN declare_mesh_entities(s, target, subtarget_name, constraints_are_included)
    ELSE Let(declare_free_node(s, ObjectKey(target)), LAMBDA s1 :
             IF constraints_are_included
             THEN Return(
                      declare_constraint_edges(
                          s1, s1.ret[1],
                          ConstraintsOf(ObjectKey(target),
                                        scene.objects[target].constraints),
                          None),
                      s1.ret)
             ELSE s1)

-----------------------------------------------------------------------------
(* analyzerigs.py: the passes after the declarations *)

\* getattr(blender_struct, 'parent', None), as the identity of the parent:
\* an object's parent object, a bone's parent bone, None for anything else.
ParentOf(blender_struct) ==
    IF blender_struct[1] = "object"
    THEN IF scene.objects[blender_struct[2]].parent = None
         THEN None
         ELSE ObjectKey(scene.objects[blender_struct[2]].parent[1])
    ELSE IF blender_struct[1] = "bone"
    THEN IF BoneNamed(blender_struct[2], blender_struct[3]).parent = None
         THEN None
         ELSE BoneKey(blender_struct[2],
                      BoneNamed(blender_struct[2], blender_struct[3]).parent[1])
    ELSE None

\* declare_parent_relation_edge that never looks for the parent bone: the
\* edge of an object always ends at the node of the parent object.
declare_parent_relation_edge_to_object(s, blender_struct) ==
    LET entity_id == RegistryGet(s.struct_entity_id_dict, blender_struct)
        parent_node_id == RegistryGet(s.struct_entity_id_dict, ParentOf(blender_struct))
    IN  IF entity_id = None
        THEN Return(s, None)
        ELSE IF parent_node_id # None
        THEN Return(declare_edge(s, None, entity_id[1], parent_node_id[1],
                                 None, Some(Tuple(<<"parent">>))),
                    None)
        ELSE Return(s, None)

declare_parent_relation_edge(s, blender_struct) ==
    LET entity_id == RegistryGet(s.struct_entity_id_dict, blender_struct)
        parent_struct == ParentOf(blender_struct)
        parent_relationship_type ==
            IF blender_struct[1] = "object"
            THEN scene.objects[blender_struct[2]].parent_type
            ELSE "None"
        parent_bone_name ==
            IF blender_struct[1] = "object"
            THEN scene.objects[blender_struct[2]].parent_bone
            ELSE Name.Blank
        parent_struct_type ==
            IF parent_struct # None /\ parent_struct[1] = "object"
            THEN scene.objects[parent_struct[2]].type
            ELSE "None"
        parent_relationship_targets_bone ==
            parent_struct_type = "ARMATURE" /\ parent_relationship_type = "BONE"
        parent_bone ==
            IF parent_relationship_targets_bone
            THEN BoneKey(parent_struct[2], parent_bone_name)
            ELSE None
        parent_bone_node_id ==
            IF parent_bone # None
            THEN RegistryGet(s.struct_entity_id_dict, parent_bone)
            ELSE None
        parent_node_id ==
            IF parent_bone_node_id # None
            THEN parent_bone_node_id
            ELSE RegistryGet(s.struct_entity_id_dict, parent_struct)
    IN  IF entity_id = None
        THEN Return(s, None)
        ELSE IF parent_node_id # None
        THEN Return(declare_edge(s, None, entity_id[1], parent_node_id[1],
                                 None, Some(Tuple(<<"parent">>))),
                    None)
        ELSE Return(s, None)

is_bone_entity(entity_id, entity_categories_dict) ==
    InCategories("bone", entity_categories_dict[entity_id])

\* (*categories, 'root'): unpacking a str yields its characters
WithRoot(categories) ==
    IF categories.is_tuple
    THEN Tuple(Append(categories.items, "root"))
    ELSE Tuple(Append(categories.text, "root"))

\* declare_root_bone_style that also takes a bone for a root bone when its
\* parent bone has no node.
declare_root_bone_style_by_nodes(s, blender_struct) ==
    LET entity_id == RegistryGet(s.struct_entity_id_dict, blender_struct)[1]
        blender_struct_is_root_bone ==
            /\ RegistryGet(s.struct_entity_id_dict, ParentOf(blender_struct)) = None
            /\ is_bone_entity(entity_id, s.graph_data.entity_categories_dict)
    IN  IF blender_struct_is_root_bone
        THEN [s EXCEPT !.graph_data.entity_categories_dict[entity_id] = WithRoot(@)]
        ELSE s

declare_root_bone_style(s, blender_struct) ==
    LET entity_categories_dict == s.graph_data.entity_categories_dict
        parent_struct == ParentOf(blender_struct)
        entity_id == RegistryGet(s.struct_entity_id_dict, blender_struct)[1]
        blender_struct_is_root_bone ==
            parent_struct = None /\ is_bone_entity(entity_id, entity_categories_dict)
    IN  IF blender_struct_is_root_bone
        THEN [s EXCEPT !.graph_data.entity_categories_dict[entity_id] = WithRoot(@)]
        ELSE s

\* is_unused_head_node without the test for a head that is alone in its
\* cluster.
is_unused_head_node_alone_too(node_id, cluster_id, graph) ==
    IF node_id = None \/ cluster_id = None
    THEN FALSE
    ELSE IF ~ InCategories("head", graph.entity_categories_dict[node_id[1]])
    THEN FALSE
    ELSE \A edge_id \in DOMAIN graph.edge_tuple_dict :
            /\ node_id[1] # graph.edge_tuple_dict[edge_id][1]
            /\ node_id[1] # graph.edge_tuple_dict[edge_id][2]

\* is_unused_head_node without the search for edges at the node.
is_unused_head_node_edges_ignored(node_id, cluster_id, graph) ==
    IF node_id = None \/ cluster_id = None
    THEN FALSE
    ELSE IF ~ InCategories("head", graph.entity_categories_dict[node_id[1]])
    THEN FALSE
    ELSE ~ (/\ cluster_id[1] \in DOMAIN graph.cluster_nodes_dict
            /\ Cardinality(graph.cluster_nodes_dict[cluster_id[1]]) = 1)

\* node_id and cluster_id are None or <<id>>
is_unused_head_node(node_id, cluster_id, graph) ==
    IF node_id = None \/ cluster_id = None
    THEN FALSE
    ELSE IF ~ InCategories("head", graph.entity_categories_dict[node_id[1]])
    THEN FALSE
    ELSE IF /\ cluster_id[1] \in DOMAIN graph.cluster_nodes_dict
            /\ Cardinality(graph.cluster_nodes_dict[cluster_id[1]]) = 1
    THEN FALSE
    ELSE \A edge_id \in DOMAIN graph.edge_tuple_dict :
            /\ node_id[1] # graph.edge_tuple_dict[edge_id][1]
            /\ node_id[1] # graph.edge_tuple_dict[edge_id][2]

\* remove_node_if_unused_head that removes every node registered for the
\* owner of a cluster, used or not, alone or not.
remove_node_if_unused_head_unconditionally(s, blender_struct) ==
    LET cluster_id == RegistryGet(s.struct_cluster_id_dict, blender_struct)
        node_id == RegistryGet(s.struct_entity_id_dict, blender_struct)
    IN  IF node_id # None /\ cluster_id # None
        THEN [s EXCEPT
                !.graph_data.cluster_nodes_dict[cluster_id[1]] = @ \ {node_id[1]},
                !.struct_entity_id_dict = RegistryDel(@, blender_struct)]
        ELSE s

remove_node_if_unused_head(s, blender_struct) ==
    LET cluster_id == RegistryGet(s.struct_cluster_id_dict, blender_struct)
        node_id == RegistryGet(s.struct_entity_id_dict, blender_struct)
    IN  IF is_unused_head_node(node_id, cluster_id, s.graph_data)
        THEN [s EXCEPT
                !.graph_data.cluster_nodes_dict[cluster_id[1]] = @ \ {node_id[1]},
                !.struct_entity_id_dict = RegistryDel(@, blender_struct)]
        ELSE s

create_legend_data ==
    Let(declare_cluster(NewBuild, None, Some(Text.Legend)), LAMBDA s0 :
    Let(declare_node(s0, None, s0.ret, Some(Text.Parent), None), LAMBDA s1 :
    Let(declare_node(s1, None, s0.ret, Some(Text.Child), None), LAMBDA s2 :
    Let(declare_edge(s2, None, s2.ret[1], s1.ret[1],
                     None, Some(Tuple(<<"parent">>))), LAMBDA s3 :
    Let(declare_node(s3, None, s0.ret, Some(Text.Subject), None), LAMBDA s4 :
    Let(declare_node(s4, None, s0.ret, Some(Name.Target), None), LAMBDA s5 :
    Let(declare_edge(s5, None, s4.ret[1], s5.ret[1],
                     Some(Text.Constraint), Some(Tuple(<<"constraint">>))), LAMBDA s6 :
    Let(declare_node(s6, None, s0.ret, Some(Text.DeformingBone),
                     Some(Tuple(<<"bone", "deforming">>))), LAMBDA s7 :
    Let(declare_node(s7, None, s0.ret, Some(Text.Root),
                     Some(Tuple(<<"bone", "root">>))), LAMBDA s8 :
    Let(declare_edge(s8, None, s7.ret[1], s8.ret[1],
                     None, Some(Tuple(<<"invisible">>))), LAMBDA s9 :
    Let(declare_node(s9, None, s0.ret,
                     Some(Append(Text.SymmetricBone, mirror_symbol)),
                     Some(Tuple(<<"bone">>))), LAMBDA s10 :
    Let(declare_node(s10, None, s0.ret, Some(Text.SymmetryBreakingBone),
                     Some(Tuple(<<"bone", "antisymmetric">>))), LAMBDA s11 :
    declare_edge(s11, None, s10.ret[1], s11.ret[1],
                 None, Some(Tuple(<<"invisible">>)))))))))))))))

-----------------------------------------------------------------------------
(* The scenes the graph builder is applied to                              *)
(*                                                                         *)
(* "Rig" is an armature with the bones Arm.L, Arm.R and Spine, "Other" an  *)
(* armature with the mirrored bones Leg.L and Leg.R, "Target" a mesh with  *)
(* the vertex group Group, "Empty" an empty.                               *)

\* Longest constraint list of the bones Arm.L and Arm.R.
MaxGraphConstraints == 2

GraphConstraints ==
    { Constraint(Name.IK, "LIMIT_ROTATION", None, Name.Blank),
      Constraint(Name.Copy, "COPY_ROTATION", Some("Target"), Name.Blank),
      Constraint(Name.IK, "COPY_ROTATION", Some("Target"), Name.Group),
      Constraint(Name.IK, "COPY_ROTATION", Some("Other"), Name.LegR),
      Constraint(Name.IK, "COPY_ROTATION", Some("Other"), Name.Blank),
      Constraint(Name.IK, "COPY_ROTATION", Some("Rig"), Name.ArmR),
      Constraint(Name.IK, "COPY_ROTATION", Some("Rig"), Name.Spine),
      Constraint(Name.IK, "COPY_ROTATION", Some("Rig"), Name.Blank),
      Constraint(Name.Copy, "COPY_ROTATION", Some("Empty"), Name.Blank) }

GraphConstraintLists == SeqsUpTo(GraphConstraints, MaxGraphConstraints)

GraphShortLists ==
    { <<>>,
      <<Constraint(Name.Copy, "COPY_ROTATION", Some("Target"), Name.Blank)>>,
      <<Constraint(Name.IK, "COPY_ROTATION", Some("Rig"), Name.ArmR)>>,
      <<Constraint(Name.IK, "COPY_ROTATION", Some("Other"), Name.LegR)>> }

\* The constraint list of the bone on the other side: subtargets inside the
\* armature "Rig" are replaced by their opposite names.
Mirrored(constraints) ==
    [ i \in 1..Len(constraints) |->
        IF /\ constraints[i].target = Some("Rig")
           /\ parse_sided_bone_name(constraints[i].subtarget) # None
        THEN [constraints[i] EXCEPT
                !.subtarget = parse_sided_bone_name(constraints[i].subtarget)[2]]
        ELSE constraints[i] ]

\* Object-level constraints, per object.
NoObjectConstraints == [o \in Objects |-> <<>>]

SomeObjectConstraints ==
    [ Rig |-> <<Constraint(Name.Copy, "COPY_LOCATION", Some("Target"), Name.Blank)>>,
      Other |-> <<Constraint(Name.Copy, "COPY_LOCATION", Some("Target"), Name.Group)>>,
      Target |-> << Constraint(Name.IK, "LIMIT_LOCATION", None, Name.Blank),
                    Constraint(Name.Copy, "COPY_LOCATION", Some("Rig"), Name.ArmR) >>,
      Empty |-> << Constraint(Name.Copy, "COPY_LOCATION", Some("Rig"), Name.Blank),
                   Constraint(Name.IK, "COPY_LOCATION", Some("Rig"), Name.ArmR) >> ]

\* Parent relations, per object: <<parent, parent_type, parent_bone>>.
ObjectParent(parent, parent_type, parent_bone) ==
    [parent |-> parent, parent_type |-> parent_type, parent_bone |-> parent_bone]

NoParents == [o \in Objects |-> ObjectParent(None, "OBJECT", Name.Blank)]

GraphParents ==
    { NoParents,
      [NoParents EXCEPT !.Target = ObjectParent(Some("Rig"), "OBJECT", Name.Blank)],
      [NoParents EXCEPT !.Target = ObjectParent(Some("Rig"), "BONE", Name.ArmL)],
      [NoParents EXCEPT !.Rig = ObjectParent(Some("Empty"), "OBJECT", Name.Blank)] }

GraphObject(type, name, bones, vertex_groups, object_constraints, parent) ==
    [ SceneObject(type, name, bones) EXCEPT
        !.vertex_groups = vertex_groups,
        !.constraints = object_constraints,
        !.parent = parent.parent,
        !.parent_type = parent.parent_type,
        !.parent_bone = parent.parent_bone ]

GraphScene(constraints_0, constraints_1, object_constraints, parents) ==
    [objects |->
        [o \in Objects |->
            IF o = "Rig"
            THEN GraphObject("ARMATURE", Name.Rig,
                    << Bone(Name.ArmL, Some(Name.Spine), TRUE, constraints_0),
                       Bone(Name.ArmR, Some(Name.Spine), TRUE, constraints_1),
                       Bone(Name.Spine, None, FALSE, <<>>) >>,
                    <<>>, object_constraints[o], parents[o])
            ELSE IF o = "Other"
            THEN GraphObject("ARMATURE", Name.Other,
                    << Bone(Name.LegL, None, TRUE,
                            <<Constraint(Name.IK, "COPY_ROTATION", Some("Empty"),
                                         Name.Blank)>>),
                       Bone(Name.LegR, None, TRUE,
                            <<Constraint(Name.IK, "COPY_ROTATION", Some("Empty"),
                                         Name.Blank)>>) >>,
                    <<>>, object_constraints[o], parents[o])
            ELSE IF o = "Target"
            THEN GraphObject("MESH", Name.Target, <<>>, <<Name.Group>>,
                             object_constraints[o], parents[o])
            ELSE GraphObject("EMPTY", Name.Empty, <<>>, <<>>,
                             object_constraints[o], parents[o])]]

\* The scene with other constraint lists on the bones Leg.L and Leg.R of
\* "Other" (both bones get the same list).
WithOtherBoneConstraints(scene_, constraints) ==
    [scene_ EXCEPT
        !.objects.Other.bones =
            [ i \in 1..Len(@) |-> [@[i] EXCEPT !.constraints = constraints] ]]

\* Constraint lists of Leg.L and Leg.R that reach into the armature "Rig".
OtherBoneConstraintLists ==
    { <<Constraint(Name.IK, "COPY_ROTATION", Some("Rig"), Name.ArmR)>>,
      << Constraint(Name.Copy, "COPY_ROTATION", Some("Rig"), Name.ArmL),
         Constraint(Name.IK, "COPY_ROTATION", Some("Other"), Name.LegR) >>,
      << Constraint(Name.IK, "LIMIT_ROTATION", None, Name.Blank),
         Constraint(Name.IK, "COPY_ROTATION", Some("Rig"), Name.ArmR) >> }

\* Lists of root objects handed to analyze_rig_graph.
GraphRootLists ==
    { <<>>, <<"Rig">>, <<"Target">>, <<"Empty">>, <<"Other">>,
      <<"Rig", "Target">>, <<"Target", "Rig">>, <<"Rig", "Rig">>,
      <<"Rig", "Target", "Rig">>,
      <<"Other", "Rig">>, <<"Empty", "Rig", "Target">> }

\* The bones is_bone_excluded holds for.
GraphExclusions ==
    { {},
      {<<"Rig", Name.ArmL>>},
      {<<"Rig", Name.Spine>>},
      {<<"Rig", Name.ArmR>>, <<"Other", Name.LegR>>},
      {<<"Rig", Name.ArmL>>, <<"Rig", Name.ArmR>>, <<"Rig", Name.Spine>>,
       <<"Other", Name.LegL>>, <<"Other", Name.LegR>>} }

GraphInput(scene_, blender_structs_, excluded_bones_) ==
    [scene |-> scene_, blender_structs |-> blender_structs_,
     excluded_bones |-> excluded_bones_]

\* The armature Rig of two parentless bones Arm.L and Arm.R, each with one
\* constraint of the same type on the object Target without subtarget, and
\* Target, a mesh or an armature; roots are both; no bone is excluded.
EndToEndInputs ==
    { GraphInput(
          [objects |->
              [o \in Objects |->
                  IF o = "Rig"
                  THEN GraphObject("ARMATURE", Name.Rig,
                          << Bone(Name.ArmL, None, deform, <<
                                 Constraint(Name.IK, type, Some("Target"),
                                            Name.Blank) >>),
                             Bone(Name.ArmR, None, deform, <<
                                 Constraint(name, type, Some("Target"),
                                            Name.Blank) >>) >>,
                          <<>>, <<>>, parents[o])
                  ELSE IF o = "Target"
                  THEN GraphObject(target[1], Name.Target, target[2], target[3],
                                   <<>>, parents[o])
                  ELSE GraphObject("EMPTY", Name.Empty, <<>>, <<>>, <<>>,
                                   NoParents[o])]],
          roots, {}) :
        deform \in BOOLEAN,
        name \in {Name.IK, Name.Copy},
        type \in {"COPY_ROTATION", "IK"},
        target \in { <<"MESH", <<>>, <<>>>>,
                     <<"MESH", <<>>, <<Name.Group>>>>,
                     <<"ARMATURE", <<>>, <<>>>>,
                     <<"ARMATURE",
                       <<Bone(Name.Spine, None, TRUE, <<>>)>>, <<>>>> },
        parents \in
            { NoParents,
              [NoParents EXCEPT
                  !.Target = ObjectParent(Some("Rig"), "OBJECT", Name.Blank)],
              [NoParents EXCEPT
                  !.Target = ObjectParent(Some("Rig"), "BONE", Name.ArmL)],
              [NoParents EXCEPT
                  !.Target = ObjectParent(Some("Rig"), "BONE", Name.ArmR)],
              [NoParents EXCEPT
                  !.Rig = ObjectParent(Some("Target"), "OBJECT", Name.Blank)] },
        roots \in {<<"Rig", "Target">>, <<"Target", "Rig">>} }

\* The armature Rig with bones whose names differ in case only: 'x RiGHT',
\* 'x Right' and 'x Left' alike; 'x RiGHT' and 'x Left' alone; the three with a
\* constraint on 'x Right' only; 'x LeFT' and 'x Right' alone; the root is
\* Rig, no bone is excluded.
CaseVariantInputs ==
    { GraphInput(
          [ GraphScene(<<>>, <<>>, NoObjectConstraints, NoParents) EXCEPT
              !.objects.Rig.bones = bones ],
          <<"Rig">>, {}) :
        bones \in
            { << Bone(Name.XRiGHT, None, TRUE, <<>>),
                 Bone(Name.XRight, None, TRUE, <<>>),
                 Bone(Name.XLeft, None, TRUE, <<>>) >>,
              << Bone(Name.XRiGHT, None, TRUE, <<>>),
                 Bone(Name.XLeft, None, TRUE, <<>>) >>,
              << Bone(Name.XRiGHT, None, TRUE, <<>>),
                 Bone(Name.XRight, None, TRUE,
                      <<Constraint(Name.Copy, "COPY_ROTATION", Some("Target"),
                                   Name.Blank)>>),
                 Bone(Name.XLeft, None, TRUE, <<>>) >>,
              << Bone(Name.XLeFT, None, TRUE, <<>>),
                 Bone(Name.XRight, None, TRUE, <<>>) >> } }

GraphInputs ==
    EndToEndInputs
    \cup
    CaseVariantInputs
    \cup
    { GraphInput(GraphScene(c0, c1, NoObjectConstraints, NoParents), <<"Rig">>, {}) :
        c0 \in GraphConstraintLists, c1 \in {<<>>} }
    \cup
    { GraphInput(GraphScene(c0, Mirrored(c0), NoObjectConstraints, NoParents),
                 <<"Rig">>, {}) :
        c0 \in GraphConstraintLists }
    \cup
    { GraphInput(GraphScene(c0, Mirrored(c0), oc, p), roots, excluded) :
        c0 \in GraphShortLists,
        oc \in {NoObjectConstraints, SomeObjectConstraints},
        p \in GraphParents,
        roots \in GraphRootLists,
        excluded \in GraphExclusions }
    \cup
    { GraphInput(
          WithOtherBoneConstraints(
              GraphScene(c0, Mirrored(c0), oc, NoParents), other_constraints),
          roots, excluded) :
        c0 \in GraphShortLists,
        oc \in {NoObjectConstraints, SomeObjectConstraints},
        other_constraints \in OtherBoneConstraintLists,
        roots \in {<<"Other">>, <<"Other", "Rig">>, <<"Rig", "Other">>,
                   <<"Other", "Rig", "Other">>},
        excluded \in {{}, {<<"Rig", Name.ArmR>>, <<"Other", Name.LegR>>}} }

\* The scene with the state of visibility: the armature layer 1 is shown; a
\* bone of "Rig" is visible (on layers 1 and 2), hidden in the current mode
\* ("hide") or on layer 2 only ("layer"); what is not hidden in the current
\* mode is hidden in the other; the bones of other armatures are visible.
WithVisibility(scene_, context_mode, arm_l, arm_r, spine) ==
    LET pairs == UNION { { <<o, scene_.objects[o].bones[i].name>> :
                               i \in 1..Len(scene_.objects[o].bones) } :
                           o \in Objects }
        state(pair) ==
            IF pair[1] # "Rig" THEN "visible"
            ELSE IF pair[2] = Name.ArmL THEN arm_l
            ELSE IF pair[2] = Name.ArmR THEN arm_r
            ELSE spine
    IN  [ objects |-> scene_.objects,
          visibility |->
              [ context_mode |-> context_mode,
                layers |-> [o \in Objects |-> {1}],
                hide |-> { pair \in pairs :
                             (state(pair) = "hide")
                                 = (context_mode # "EDIT_ARMATURE") },
                edit_hide |-> { pair \in pairs :
                                  (state(pair) = "hide")
                                      = (context_mode = "EDIT_ARMATURE") },
                bone_layers |-> [ pair \in pairs |->
                                    IF state(pair) = "layer" THEN {2}
                                    ELSE {1, 2} ] ] ]

\* The calls of the operator that graphs the visible bones: scenes, roots
\* and states of visibility.
VisibleBonesInputs ==
    { [ scene |-> WithVisibility(GraphScene(c[1], c[2], oc_roots[1], NoParents),
                                 context_mode, arm_l, arm_r, spine),
        blender_structs |-> oc_roots[2] ] :
        c \in { <<c0, Mirrored(c0)>> : c0 \in GraphShortLists }
              \cup { << <<Constraint(Name.Copy, "COPY_ROTATION", Some("Target"),
                                     Name.Blank)>>, <<>> >> },
        oc_roots \in { <<NoObjectConstraints, <<"Rig">> >>,
                       <<SomeObjectConstraints, <<"Empty", "Rig", "Target">> >> },
        context_mode \in {"POSE", "EDIT_ARMATURE"},
        arm_l \in {"visible", "hide", "layer"},
        arm_r \in {"visible", "hide", "layer"},
        spine \in {"visible", "hide"} }

\* The bones are_bone_and_opposite_invisible holds for, in the current scene.
InvisibleBones ==
    { pair \in DOMAIN scene.visibility.bone_layers :
        are_bone_and_opposite_invisible(BoneNamed(pair[1], pair[2]), pair[1],
                                        scene.visibility.context_mode) }

\* analyze_rig_graph as one function of its roots: the four loops one after
\* the other, each from its i-th item on.
RECURSIVE declare_roots_loop(_, _, _)
declare_roots_loop(s, roots, i) ==
    IF i > Len(roots) THEN s
    ELSE Let(declare_destination_entities(s, roots[i], None, TRUE, TRUE, TRUE),
             LAMBDA s1 : declare_roots_loop(s1, roots, i + 1))

RECURSIVE declare_parent_relation_edges_loop(_, _)
declare_parent_relation_edges_loop(s, i) ==
    IF i > Len(s.struct_entity_id_dict) THEN s
    ELSE Let(declare_parent_relation_edge(s, s.struct_entity_id_dict[i][1]),
             LAMBDA s1 : declare_parent_relation_edges_loop(s1, i + 1))

RECURSIVE declare_root_bone_styles_loop(_, _)
declare_root_bone_styles_loop(s, i) ==
    IF i > Len(s.struct_entity_id_dict) THEN s
    ELSE Let(declare_root_bone_style(s, s.struct_entity_id_dict[i][1]),
             LAMBDA s1 : declare_root_bone_styles_loop(s1, i + 1))

RECURSIVE remove_unused_heads_loop(_, _)
remove_unused_heads_loop(s, i) ==
    IF i > Len(s.struct_cluster_id_dict) THEN s
    ELSE Let(remove_node_if_unused_head(s, s.struct_cluster_id_dict[i][1]),
             LAMBDA s1 : remove_unused_heads_loop(s1, i + 1))

analyze_rig_graph(roots) ==
    Let(declare_roots_loop(NewBuild, roots, 1), LAMBDA s1 :
    Let(declare_parent_relation_edges_loop(s1, 1), LAMBDA s2 :
    Let(declare_root_bone_styles_loop(s2, 1), LAMBDA s3 :
        remove_unused_heads_loop(s3, 1).graph_data)))

-----------------------------------------------------------------------------
(* analyzerigs.py: analyze_rig_graph and create_legend_data, step by step *)

Init ==
    /\ \/ \E input \in GraphInputs :
             /\ scene = input.scene
             /\ blender_structs = input.blender_structs
             /\ excluded_bones = input.excluded_bones
       \/ \E input \in VisibleBonesInputs :
             /\ scene = input.scene
             /\ blender_structs = input.blender_structs
             /\ excluded_bones = InvisibleBones
    /\ pc = "start"
    /\ index = 0
    /\ fresh_ids = 0
    /\ struct_entity_id_dict = <<>>
    /\ struct_cluster_id_dict = <<>>
    /\ graph_data = initialize_graph_data
    /\ id_log = <<>>
    /\ NameIdle
    /\ BoneIdle
    /\ RenderIdle
    /\ SaveIdle

\* The build variables take the values of the state s.
Becomes(s) ==
    /\ fresh_ids' = s.fresh_ids
    /\ struct_entity_id_dict' = s.struct_entity_id_dict
    /\ struct_cluster_id_dict' = s.struct_cluster_id_dict
    /\ graph_data' = s.graph_data
    /\ id_log' = s.id_log

\* analyze_rig_graph: fresh_ids, the registries and graph_data are created
AnalyzeRigGraph ==
    /\ pc = "start"
    /\ \E s \in {NewBuild} : Becomes(s)
    /\ pc' = "declare"
    /\ index' = 1
    /\ UNCHANGED <<save_vars, render_vars, name_vars, scene, bone_vars, blender_structs, excluded_bones>>

\* for bs in blender_structs: declare_destination_entities(bs, None, ...)
DeclareRoot ==
    /\ pc = "declare"
    /\ index <= Len(blender_structs)
    /\ \E s \in {declare_destination_entities(
                   BuildState, blender_structs[index], None, TRUE, TRUE, TRUE)} : Becomes(s)
    /\ index' = index + 1
    /\ UNCHANGED <<save_vars, render_vars, name_vars, scene, bone_vars, blender_structs, excluded_bones, pc>>

DeclareRootsDone ==
    /\ pc = "declare"
    /\ index > Len(blender_structs)
    /\ pc' = "parents"
    /\ index' = 1
    /\ UNCHANGED <<save_vars, render_vars, name_vars, scene, bone_vars, blender_structs, excluded_bones,
                   build_vars>>

\* for blender_struct in struct_entity_id_dict: declare_parent_relation_edge
DeclareParentRelationEdge ==
    /\ pc = "parents"
    /\ index <= Len(struct_entity_id_dict)
    /\ \E s \in {declare_parent_relation_edge(
                   BuildState, struct_entity_id_dict[index][1])} : Becomes(s)
    /\ index' = index + 1
    /\ UNCHANGED <<save_vars, render_vars, name_vars, scene, bone_vars, blender_structs, excluded_bones, pc>>

ParentRelationsDone ==
    /\ pc = "parents"
    /\ index > Len(struct_entity_id_dict)
    /\ pc' = "root_style"
    /\ index' = 1
    /\ UNCHANGED <<save_vars, render_vars, name_vars, scene, bone_vars, blender_structs, excluded_bones,
                   build_vars>>

\* for blender_struct in struct_entity_id_dict: declare_root_bone_style
DeclareRootBoneStyle ==
    /\ pc = "root_style"
    /\ index <= Len(struct_entity_id_dict)
    /\ \E s \in {declare_root_bone_style(
                   BuildState, struct_entity_id_dict[index][1])} : Becomes(s)
    /\ index' = index + 1
    /\ UNCHANGED <<save_vars, render_vars, name_vars, scene, bone_vars, blender_structs, excluded_bones, pc>>

RootBoneStylesDone ==
    /\ pc = "root_style"
    /\ index > Len(struct_entity_id_dict)
    /\ pc' = "prune"
    /\ index' = 1
    /\ UNCHANGED <<save_vars, render_vars, name_vars, scene, bone_vars, blender_structs, excluded_bones,
                   build_vars>>

\* A variant of RemoveNodeIfUnusedHead whose loop never leaves a cluster.
RemoveNodeIfUnusedHead_same_cluster_again ==
    /\ pc = "prune"
    /\ index <= Len(struct_cluster_id_dict)
    /\ \E s \in {remove_node_if_unused_head(
                   BuildState, struct_cluster_id_dict[index][1])} : Becomes(s)
    /\ index' = index
    /\ UNCHANGED <<save_vars, render_vars, name_vars, scene, bone_vars, blender_structs, excluded_bones, pc>>

\* for blender_struct in struct_cluster_id_dict: remove_node_if_unused_head
RemoveNodeIfUnusedHead ==
    /\ pc = "prune"
    /\ index <= Len(struct_cluster_id_dict)
    /\ \E s \in {remove_node_if_unused_head(
                   BuildState, struct_cluster_id_dict[index][1])} : Becomes(s)
    /\ index' = index + 1
    /\ UNCHANGED <<save_vars, render_vars, name_vars, scene, bone_vars, blender_structs, excluded_bones, pc>>

\* return graph_data
ReturnGraphData ==
    /\ pc = "prune"
    /\ index > Len(struct_cluster_id_dict)
    /\ pc' = "done"
    /\ index' = 0
    /\ UNCHANGED <<save_vars, render_vars, name_vars, scene, bone_vars, blender_structs, excluded_bones,
                   build_vars>>

\* create_legend_data()
CreateLegendData ==
    /\ pc = "start"
    /\ \E s \in {create_legend_data} : Becomes(s)
    /\ pc' = "legend"
    /\ index' = 0
    /\ UNCHANGED <<save_vars, render_vars, name_vars, scene, bone_vars, blender_structs, excluded_bones>>

Next ==
    \/ AnalyzeRigGraph
    \/ DeclareRoot
    \/ DeclareRootsDone
    \/ DeclareParentRelationEdge
    \/ ParentRelationsDone
    \/ DeclareRootBoneStyle
    \/ RootBoneStylesDone
    \/ RemoveNodeIfUnusedHead
    \/ ReturnGraphData
    \/ CreateLegendData

Spec == Init /\ [][Next]_vars

\* The loops of analyze_rig_graph go on: a step that can be taken is taken.
FairSpec == Spec /\ WF_vars(Next)

-----------------------------------------------------------------------------
(* renderdot.py: the DOT renderer                                          *)
(*                                                                         *)
(* A text is a sequence of one-character strings.  The named arguments of  *)
(* the create_dot_* functions are the record dot_args: free_nodes is the   *)
(* sequence of the node IDs in the order the set iterates; the dicts       *)
(* cluster_nodes_dict, edge_tuple_dict and category_attrs_dict (and the    *)
(* attribute dicts in it) are sequences of <<key, value>> in the order the *)
(* dict iterates; entity_label_dict and entity_categories_dict, which are  *)
(* only looked up, are functions from entity IDs, as in graph_data.        *)

\* The literal parts of the f-strings.
Dot ==
    [
      quote |-> <<"\"">>,
      label_open |-> <<"l", "a", "b", "e", "l", "=", "\"">>,
      equals_open |-> <<"\"", "=", "\"">>,
      attrs_open |-> <<" ", "[">>,
      comma |-> <<",", " ">>,
      attrs_close |-> <<"]">>,
      semicolon |-> <<";">>,
      space |-> <<" ">>,
      arrow_open |-> <<"-", ">", " ", "\"">>,
      quote_space |-> <<"\"", " ">>,
      subgraph_open |->
          <<"s", "u", "b", "g", "r", "a", "p", "h", " ", "\"", "c", "l",
            "u", "s", "t", "e", "r", "_">>,
      brace_open |-> <<"{", " ">>,
      cluster_fontsize |->
          <<"f", "o", "n", "t", "s", "i", "z", "e", "=", "2", "4", ";",
            " ">>,
      quote_semicolon |-> <<"\"", ";", " ">>,
      brace_close |-> <<" ", "}">>,
      digraph_open |-> <<"d", "i", "g", "r", "a", "p", "h", " ", "{", " ">>,
      graph_open |-> <<"g", "r", "a", "p", "h", " ", "[">>,
      rankdir_open |-> <<"r", "a", "n", "k", "d", "i", "r", "=", "\"">>,
      style_rounded |->
          <<"s", "t", "y", "l", "e", "=", "r", "o", "u", "n", "d", "e",
            "d", " ">>,
      color_gray |->
          <<"c", "o", "l", "o", "r", "=", "g", "r", "a", "y", "7", "5",
            " ">>,
      fontname_open |-> <<"f", "o", "n", "t", "n", "a", "m", "e", "=", "\"">>,
      graph_fontsize |->
          <<"f", "o", "n", "t", "s", "i", "z", "e", "=", "1", "0">>,
      defaults_close |-> <<"]", ";", " ">>,
      node_open |->
          <<"n", "o", "d", "e", " ", "[", "s", "h", "a", "p", "e", "=",
            "p", "l", "a", "i", "n", "t", "e", "x", "t", " ", "s", "t",
            "y", "l", "e", "=", "r", "o", "u", "n", "d", "e", "d", " ",
            "f", "o", "n", "t", "n", "a", "m", "e", "=", "\"">>,
      quote_defaults_close |-> <<"\"", "]", ";", " ">>,
      edge_open |->
          <<"e", "d", "g", "e", " ", "[", "f", "o", "n", "t", "s", "i",
            "z", "e", "=", "1", "0", " ", "f", "o", "n", "t", "n", "a",
            "m", "e", "=", "\"">>,
      none |-> <<"N", "o", "n", "e">> ]

\* separator.join(texts)
RECURSIVE Join(_, _)
Join(separator, texts) ==
    IF texts = <<>> THEN <<>>
    ELSE IF Len(texts) = 1 THEN texts[1]
    ELSE texts[1] \o separator \o Join(separator, Tail(texts))

\* str(n) for an entity ID n >= 0
RECURSIVE StrOfInt(_)
StrOfInt(n) ==
    LET digit == <<"0", "1", "2", "3", "4", "5", "6", "7", "8", "9">>
    IN  IF n < 10 THEN <<digit[n + 1]>>
        ELSE Append(StrOfInt(n \div 10), digit[(n % 10) + 1])

\* escape_translation_table: a dict whose keys are the strs '"' and '\\'
escape_translation_table ==
    [ key_type |-> "str",
      items |-> << <<"\"", <<"\\", "\"">>>>, <<"\\", <<"\\", "\\">>>> >> ]

\* str(input).translate(escape_translation_table) for a text.  str.translate
\* looks each character up in the table by its ordinal, an int, and keeps a
\* character that has no entry; a key that is a str equals no ordinal.  (In a
\* table with key_type "int" the keys stand for the ordinals of the
\* characters.)
escape_quotes(input) ==
    LET table == escape_translation_table
        translation(character) ==
            IF /\ table.key_type = "int"
               /\ \E k \in 1..Len(table.items) : table.items[k][1] = character
            THEN table.items[CHOOSE k \in 1..Len(table.items) :
                                 table.items[k][1] = character][2]
            ELSE <<character>>
    IN  Join(<<>>, [i \in 1..Len(input) |-> translation(input[i])])

\* dict.get(key) for a dict given as a sequence of <<key, value>>:
\* None or <<value>>
DictGet(dict, key) ==
    IF \E i \in 1..Len(dict) : dict[i][1] = key
    THEN Some(dict[CHOOSE i \in 1..Len(dict) : dict[i][1] = key][2])
    ELSE None

\* A variant of create_dot_attr_list that takes the tags in reverse order.
create_dot_attr_list_reversed_tags(entity_id, entity_label_dict, entity_categories_dict, category_attrs_dict) ==
    LET label ==
            IF entity_id \in DOMAIN entity_label_dict
            THEN entity_label_dict[entity_id]
            ELSE None
        entity_categories ==
            IF entity_id \notin DOMAIN entity_categories_dict THEN <<>>
            ELSE IF entity_categories_dict[entity_id].is_tuple
            THEN entity_categories_dict[entity_id].items
            ELSE entity_categories_dict[entity_id].text
        attr_strings(category_name) ==
            Let(DictGet(category_attrs_dict, category_name), LAMBDA attrs :
                IF attrs = None
                THEN <<>>
                ELSE [ i \in 1..Len(attrs[1]) |->
                         Dot.quote \o escape_quotes(attrs[1][i][1])
                             \o Dot.equals_open
                             \o escape_quotes(attrs[1][i][2]) \o Dot.quote ])
    IN  Let((IF label # None /\ label[1] # <<>>
             THEN <<Dot.label_open \o escape_quotes(label[1]) \o Dot.quote>>
             ELSE <<>>)
            \o Join(<<>>, [ i \in 1..Len(entity_categories) |->
                              attr_strings(entity_categories[
                                  Len(entity_categories) + 1 - i]) ]),
            LAMBDA attr_string_list :
                IF Len(attr_string_list) # 0
                THEN Dot.attrs_open \o Join(Dot.comma, attr_string_list)
                         \o Dot.attrs_close
                ELSE <<>>)

\* A category tuple iterates over its items, a str over its characters.  The
\* inner list holds '"key"="value"' for each item of
\* category_attrs_dict.get(category_name, {}).
create_dot_attr_list(entity_id, entity_label_dict, entity_categories_dict, category_attrs_dict) ==
    LET label ==
            IF entity_id \in DOMAIN entity_label_dict
            THEN entity_label_dict[entity_id]
            ELSE None
        entity_categories ==
            IF entity_id \notin DOMAIN entity_categories_dict THEN <<>>
            ELSE IF entity_categories_dict[entity_id].is_tuple
            THEN entity_categories_dict[entity_id].items
            ELSE entity_categories_dict[entity_id].text
        attr_strings(category_name) ==
            Let(DictGet(category_attrs_dict, category_name), LAMBDA attrs :
                IF attrs = None
                THEN <<>>
                ELSE [ i \in 1..Len(attrs[1]) |->
                         Dot.quote \o escape_quotes(attrs[1][i][1])
                             \o Dot.equals_open
                             \o escape_quotes(attrs[1][i][2]) \o Dot.quote ])
    IN  Let((IF label # None /\ label[1] # <<>>
             THEN <<Dot.label_open \o escape_quotes(label[1]) \o Dot.quote>>
             ELSE <<>>)
            \o Join(<<>>, [ i \in 1..Len(entity_categories) |->
                              attr_strings(entity_categories[i]) ]),
            LAMBDA attr_string_list :
                IF Len(attr_string_list) # 0
                THEN Dot.attrs_open \o Join(Dot.comma, attr_string_list)
                         \o Dot.attrs_close
                ELSE <<>>)

create_dot_node(node_id, entity_label_dict, entity_categories_dict, category_attrs_dict) ==
    Dot.quote \o escape_quotes(StrOfInt(node_id)) \o Dot.quote
        \o create_dot_attr_list(node_id, entity_label_dict,
                                entity_categories_dict, category_attrs_dict)
        \o Dot.semicolon

\* The label is f'{entity_label_dict.get(cluster_id, "")}': the text as it
\* is, 'None' for a stored None.
create_dot_cluster(cluster_id, cluster_nodes_dict, entity_label_dict, entity_categories_dict, category_attrs_dict) ==
    Let(DictGet(cluster_nodes_dict, cluster_id)[1], LAMBDA cluster_nodes :
        Dot.subgraph_open \o escape_quotes(StrOfInt(cluster_id)) \o Dot.quote_space
            \o Dot.brace_open
            \o Dot.cluster_fontsize
            \o Dot.label_open
            \o (IF cluster_id \notin DOMAIN entity_label_dict THEN <<>>
                ELSE IF entity_label_dict[cluster_id] = None THEN Dot.none
                ELSE entity_label_dict[cluster_id][1])
            \o Dot.quote_semicolon
            \o Join(Dot.space,
                    [ i \in 1..Len(cluster_nodes) |->
                        create_dot_node(cluster_nodes[i], entity_label_dict,
                                        entity_categories_dict,
                                        category_attrs_dict) ])
            \o Dot.brace_close)

create_dot_edge(edge_id, source_id, destination_id, entity_label_dict, entity_categories_dict, category_attrs_dict) ==
    Dot.quote \o escape_quotes(StrOfInt(source_id)) \o Dot.quote_space
        \o Dot.arrow_open \o escape_quotes(StrOfInt(destination_id)) \o Dot.quote
        \o create_dot_attr_list(edge_id, entity_label_dict,
                                entity_categories_dict, category_attrs_dict)
        \o Dot.semicolon

\* A variant of create_dot_digraph that renders each free node as a cluster
\* of its own.
create_dot_digraph_free_nodes_in_clusters(args) ==
    Dot.digraph_open
        \o Dot.graph_open
        \o Dot.rankdir_open \o escape_quotes(args.rankdir) \o Dot.quote_space
        \o Dot.style_rounded
        \o Dot.color_gray
        \o Dot.fontname_open \o escape_quotes(args.fontname) \o Dot.quote_space
        \o Dot.graph_fontsize
        \o Dot.defaults_close
        \o Dot.node_open \o args.fontname \o Dot.quote_defaults_close
        \o Dot.edge_open \o args.fontname \o Dot.quote_defaults_close
        \o Dot.label_open \o escape_quotes(args.title) \o Dot.quote_semicolon
        \o Join(Dot.space,
                [ i \in 1..Len(args.free_nodes) |->
                    create_dot_cluster(args.free_nodes[i],
                                       <<<<args.free_nodes[i],
                                           <<args.free_nodes[i]>>>>>>,
                                       args.entity_label_dict,
                                       args.entity_categories_dict,
                                       args.category_attrs_dict) ]
                \o [ i \in 1..Len(args.cluster_nodes_dict) |->
                       create_dot_cluster(args.cluster_nodes_dict[i][1],
                                          args.cluster_nodes_dict,
                                          args.entity_label_dict,
                                          args.entity_categories_dict,
                                          args.category_attrs_dict) ]
                \o [ i \in 1..Len(args.edge_tuple_dict) |->
                       create_dot_edge(args.edge_tuple_dict[i][1],
                                       args.edge_tuple_dict[i][2][1],
                                       args.edge_tuple_dict[i][2][2],
                                       args.entity_label_dict,
                                       args.entity_categories_dict,
                                       args.category_attrs_dict) ])
        \o Dot.brace_close

\* args is the record of the named arguments
create_dot_digraph(args) ==
    Dot.digraph_open
        \o Dot.graph_open
        \o Dot.rankdir_open \o escape_quotes(args.rankdir) \o Dot.quote_space
        \o Dot.style_rounded
        \o Dot.color_gray
        \o Dot.fontname_open \o escape_quotes(args.fontname) \o Dot.quote_space
        \o Dot.graph_fontsize
        \o Dot.defaults_close
        \o Dot.node_open \o args.fontname \o Dot.quote_defaults_close
        \o Dot.edge_open \o args.fontname \o Dot.quote_defaults_close
        \o Dot.label_open \o escape_quotes(args.title) \o Dot.quote_semicolon
        \o Join(Dot.space,
                [ i \in 1..Len(args.free_nodes) |->
                    create_dot_node(args.free_nodes[i], args.entity_label_dict,
                                    args.entity_categories_dict,
                                    args.category_attrs_dict) ]
                \o [ i \in 1..Len(args.cluster_nodes_dict) |->
                       create_dot_cluster(args.cluster_nodes_dict[i][1],
                                          args.cluster_nodes_dict,
                                          args.entity_label_dict,
                                          args.entity_categories_dict,
                                          args.category_attrs_dict) ]
                \o [ i \in 1..Len(args.edge_tuple_dict) |->
                       create_dot_edge(args.edge_tuple_dict[i][1],
                                       args.edge_tuple_dict[i][2][1],
                                       args.edge_tuple_dict[i][2][2],
                                       args.entity_label_dict,
                                       args.entity_categories_dict,
                                       args.category_attrs_dict) ])
        \o Dot.brace_close

\* The arguments the create_dot_* functions are called with.  In the first
\* graph entities 0 and 10 are free nodes, 1 and 6 clusters of the nodes 2, 3
\* and 7, and 4, 5 and 8 edges; 9 is in no dict.  The second graph is empty;
\* the third has one free node, one cluster of one node, two edges with the
\* same ends and an edge from a node to itself.  Labels, style keys and values, title and font
\* name are texts with and without double quotes and backslashes, labels may
\* be None, empty or missing; categories are tuples or strs of tags with and
\* without a style.
RenderInputs ==
    LET labels ==
          { (0 :> Some(<<"C", "u", "b", "e">>)
                @@ 1 :> Some(<<"R", "i", "g">>)
                @@ 2 :> Some(<<"A", "r", "m", ".", "L">>)
                @@ 3 :> Some(<<"A", "r", "m", ".", "R">>)
                @@ 4 :> None
                @@ 5 :> Some(<<"I", "K">>)
                @@ 6 :> Some(<<"O", "t", "h", "e", "r">>)
                @@ 7 :> Some(<<"H", "i", "p">>)
                @@ 8 :> Some(<<"C", "o", "p", "y", " ", "L", "o", "c", "a", "t", "i", "o", "n">>)
                @@ 10 :> Some(<<"L", "a", "m", "p">>)),
            (0 :> Some(<<"A", "\"", "B">>)
                @@ 1 :> Some(<<"R", "\"", "g">>)
                @@ 2 :> Some(<<"a", "\\", "b">>)
                @@ 3 :> Some(<<>>)
                @@ 4 :> None
                @@ 5 :> Some(<<"\"">>)
                @@ 6 :> None
                @@ 8 :> Some(<<"\\", "\"">>)
                @@ 10 :> Some(<<"\"", "K", "e", "y", "\"", " ", "l", "i", "g", "h", "t">>)),
            (0 :> Some(<<"C", "u", "b", "e">>)
                @@ 2 :> Some(<<"A", "r", "m">>)
                @@ 6 :> Some(<<"R", "i", "\\", "g">>)
                @@ 7 :> Some(<<>>)
                @@ 10 :> Some(<<>>)) }
        categories ==
          { (0 :> Tuple(<<"free">>)
                @@ 2 :> Tuple(<<"bone", "deforming", "root">>)
                @@ 3 :> Tuple(<<"bone", "antisymmetric">>)
                @@ 4 :> Tuple(<<"parent">>)
                @@ 5 :> Tuple(<<"constraint">>)
                @@ 7 :> Tuple(<<"bone", "root">>)
                @@ 8 :> Tuple(<<"constraint">>)
                @@ 10 :> Tuple(<<"free">>)),
            (0 :> Str(<<"m", "e", "s", "h", "_", "h", "e", "a", "d">>)
                @@ 2 :> Tuple(<<"root", "bone", "root">>)
                @@ 3 :> Str(<<"v", "e", "r", "t", "e", "x", "_", "g", "r", "o", "u", "p">>)
                @@ 4 :> Tuple(<<"parent">>)
                @@ 5 :> Tuple(<<"constraint", "parent">>)
                @@ 7 :> Str(<<"a", "r", "m", "a", "t", "u", "r", "e", "_", "h", "e", "a", "d">>)
                @@ 8 :> Tuple(<<>>)
                @@ 10 :> Tuple(<<"invisible">>)),
            (2 :> Tuple(<<"bone">>)
                @@ 5 :> Tuple(<<>>)) }
        styles ==
          { << <<"bone", << <<<<"s", "h", "a", "p", "e">>, <<"b", "o", "x">>>>, <<<<"c", "o", "l", "o", "r">>, <<"b", "l", "a", "c", "k">>>> >>>>,
                   <<"deforming", << <<<<"c", "o", "l", "o", "r">>, <<"r", "e", "d">>>>, <<<<"p", "e", "n", "w", "i", "d", "t", "h">>, <<"2">>>> >>>>,
                   <<"root", << <<<<"s", "t", "y", "l", "e">>, <<"b", "o", "l", "d">>>>, <<<<"c", "o", "l", "o", "r">>, <<"g", "r", "e", "e", "n">>>> >>>>,
                   <<"constraint", << <<<<"c", "o", "l", "o", "r">>, <<"b", "l", "u", "e">>>> >>>>,
                   <<"parent", <<  >>>> >>,
            << <<"bone", << <<<<"x", "\"", "y">>, <<"a", "\\", "b">>>> >>>>,
                   <<"root", << <<<<"x", "\"", "y">>, <<"\"">>>>, <<<<"\\">>, <<>>>> >>>>,
                   <<"invisible", << <<<<"s", "t", "y", "l", "e">>, <<"i", "n", "v", "i", "s">>>> >>>>,
                   <<"a", << <<<<"s", "h", "a", "p", "e">>, <<"\"", "a", "\"">>>> >>>>,
                   <<"constraint", << <<<<"l", "a", "b", "e", "l">>, <<"C">>>> >>>> >>,
            <<>> }
        texts ==
          { <<<<>>, <<>>, <<>>>>,
            <<<<"M", "y", " ", "\"", "R", "i", "g", "\"">>, <<"D", "e", "j", "a", "V", "u", " ", "\"", "S", "a", "n", "s", "\"">>, <<"L", "R">>>>,
            <<<<"R", "i", "g">>, <<"H", "e", "l", "v", "e", "t", "i", "c", "a">>, <<"T", "B">>>>,
            <<<<"a", "\\">>, <<"C", ":", "\\", "f">>, <<"L", "\"", "R">>>> }
        graphs ==
          { << <<0, 10>>,
               << <<1, <<2, 3>>>>, <<6, <<7>>>> >>,
               << <<4, <<3, 2>>>>, <<5, <<2, 10>>>>, <<8, <<7, 0>>>> >> >>,
            << <<>>, <<>>, <<>> >>,
            << <<10>>,
               << <<6, <<7>>>> >>,
               << <<4, <<7, 10>>>>, <<5, <<7, 10>>>>, <<8, <<7, 7>>>> >> >> }
    IN  { [ free_nodes |-> graph[1],
            cluster_nodes_dict |-> graph[2],
            edge_tuple_dict |-> graph[3],
            entity_label_dict |-> entity_label_dict,
            entity_categories_dict |-> entity_categories_dict,
            category_attrs_dict |-> category_attrs_dict,
            title |-> text[1],
            fontname |-> text[2],
            rankdir |-> text[3] ] :
          entity_label_dict \in labels,
          entity_categories_dict \in categories,
          category_attrs_dict \in styles,
          text \in texts,
          graph \in graphs }

\* Entity IDs run from 0 to MaxEntityId.
MaxEntityId == 10

InitRender ==
    /\ NameIdle
    /\ scene = NoScene
    /\ BoneIdle
    /\ GraphIdle
    /\ dot_args \in RenderInputs
    /\ dot_op = "idle"
    /\ dot_entity = 0
    /\ dot_text = <<>>
    /\ SaveIdle

CreateDotAttrList ==
    \E entity_id \in 0..MaxEntityId :
        /\ dot_op' = "create_dot_attr_list"
        /\ dot_entity' = entity_id
        /\ dot_text' = create_dot_attr_list(entity_id,
                                            dot_args.entity_label_dict,
                                            dot_args.entity_categories_dict,
                                            dot_args.category_attrs_dict)
        /\ UNCHANGED <<save_vars, name_vars, scene, bone_vars, graph_vars, dot_args>>

CreateDotNode ==
    \E node_id \in {0, 2, 3, 7, 10} :
        /\ dot_op' = "create_dot_node"
        /\ dot_entity' = node_id
        /\ dot_text' = create_dot_node(node_id,
                                       dot_args.entity_label_dict,
                                       dot_args.entity_categories_dict,
                                       dot_args.category_attrs_dict)
        /\ UNCHANGED <<save_vars, name_vars, scene, bone_vars, graph_vars, dot_args>>

CreateDotCluster ==
    \E i \in 1..Len(dot_args.cluster_nodes_dict) :
        /\ dot_op' = "create_dot_cluster"
        /\ dot_entity' = dot_args.cluster_nodes_dict[i][1]
        /\ dot_text' = create_dot_cluster(dot_args.cluster_nodes_dict[i][1],
                                          dot_args.cluster_nodes_dict,
                                          dot_args.entity_label_dict,
                                          dot_args.entity_categories_dict,
                                          dot_args.category_attrs_dict)
        /\ UNCHANGED <<save_vars, name_vars, scene, bone_vars, graph_vars, dot_args>>

CreateDotEdge ==
    \E i \in 1..Len(dot_args.edge_tuple_dict) :
        /\ dot_op' = "create_dot_edge"
        /\ dot_entity' = dot_args.edge_tuple_dict[i][1]
        /\ dot_text' = create_dot_edge(dot_args.edge_tuple_dict[i][1],
                                       dot_args.edge_tuple_dict[i][2][1],
                                       dot_args.edge_tuple_dict[i][2][2],
                                       dot_args.entity_label_dict,
                                       dot_args.entity_categories_dict,
                                       dot_args.category_attrs_dict)
        /\ UNCHANGED <<save_vars, name_vars, scene, bone_vars, graph_vars, dot_args>>

CreateDotDigraph ==
    /\ dot_op' = "create_dot_digraph"
    /\ dot_entity' = 0
    /\ dot_text' = create_dot_digraph(dot_args)
    /\ UNCHANGED <<save_vars, name_vars, scene, bone_vars, graph_vars, dot_args>>

NextRender ==
    \/ CreateDotAttrList
    \/ CreateDotNode
    \/ CreateDotCluster
    \/ CreateDotEdge
    \/ CreateDotDigraph

SpecRender == InitRender /\ [][NextRender]_vars

-----------------------------------------------------------------------------
(* savefiles.py: saving the DOT source and the image                       *)
(*                                                                         *)
(* A path is the sequence of its components, each a text; an absolute path *)
(* starts with the component "/".  file_system holds the existing          *)
(* directories and, for each existing file, its contents.  What the        *)
(* operating system and Graphviz answer (errors of open, copyfile and      *)
(* create_subprocess_exec, the exit code and stderr) is part of the        *)
(* arguments, save_args.os.  An exception is a record; origin tells which  *)
(* call created it.                                                        *)

FileName ==
    [ root |-> <<"/">>,
      out |-> <<"o", "u", "t">>,
      tmp |-> <<"t", "m", "p">>,
      rig |-> <<"r", "i", "g">>,
      source |-> <<"r", "i", "g", ".", "d", "o", "t">>,
      output_file_extension |-> <<".", "p", "n", "g">> ]

\* os.path.join(a, b)
os_path_join(a, b) ==
    IF b # <<>> /\ b[1] = FileName.root THEN b ELSE a \o b

\* f'{path}{text}'
PathPlus(path, text) ==
    [path EXCEPT ![Len(path)] = @ \o text]

\* os.path.exists(path)
os_path_exists(fs, path) ==
    path \in DOMAIN fs.files \/ path \in fs.dirs

Exception(type, errno, message, origin) ==
    [type |-> type, errno |-> errno, message |-> message, origin |-> origin]

\* What a function of savefiles.py leaves behind: the file system and None or
\* <<the exception raised>>.
Outcome(fs, raised) == [file_system |-> fs, raised |-> raised]

\* open(dot_source_file_path, mode='w+') and file.write(dot_text)
save_temp_dot_source_file(fs, text, dot_source_file_path, os) ==
    IF os.write_error # "None"
    THEN Outcome(fs, Some(Exception("OSError", os.write_error, <<>>, "open")))
    ELSE Outcome([fs EXCEPT !.files = (dot_source_file_path :> text) @@ @],
                 None)

\* exec_graphviz_async with every OSError taken for a missing command.
exec_graphviz_async_every_oserror_not_found(fs, dot_source_file_path, output_file_path, os) ==
    IF os.start_error # "None"
    THEN Outcome(fs, Some(Exception("GraphvizNotFoundError", "None", <<>>,
                                    "exec_graphviz_async")))
    ELSE IF os.returncode # 0
    THEN Outcome(fs, Some(Exception("GraphvizOutputError", "None", os.stderr,
                                    "exec_graphviz_async")))
    ELSE Outcome([fs EXCEPT !.files = (output_file_path :> "new image") @@ @],
                 None)

\* async exec_graphviz_async.  A successful dot writes the image.
exec_graphviz_async(fs, dot_source_file_path, output_file_path, os) ==
    IF os.start_error = "ENOENT"
    THEN Outcome(fs, Some(Exception("GraphvizNotFoundError", "None", <<>>,
                                    "exec_graphviz_async")))
    ELSE IF os.start_error # "None"
    THEN Outcome(fs, Some(Exception("OSError", os.start_error, <<>>,
                                    "create_subprocess_exec")))
    ELSE IF os.returncode # 0
    THEN Outcome(fs, Some(Exception("GraphvizOutputError", "None", os.stderr,
                                    "exec_graphviz_async")))
    ELSE Outcome([fs EXCEPT !.files = (output_file_path :> "new image") @@ @],
                 None)

get_unused_suffixed_filename(fs, directory_path, filename, file_extension) ==
    LET base_filename == os_path_join(directory_path, <<filename>>)
        trial_filename(i) ==
            PathPlus(base_filename, <<".">> \o StrOfInt(i) \o file_extension)
    IN  trial_filename(
            CHOOSE i \in 0..Cardinality(DOMAIN fs.files) :
                /\ ~ os_path_exists(fs, trial_filename(i))
                /\ \A j \in 0..(i - 1) : os_path_exists(fs, trial_filename(j)))

\* shutil.copyfile(source, destination): the source is opened first, then
\* the destination; os.copy_error is what creating a file in an existing
\* destination directory answers.
copyfile(fs, source_file_path, destination_file_path, os) ==
    IF source_file_path \notin DOMAIN fs.files
    THEN Outcome(fs, Some(Exception("OSError", "ENOENT", <<>>, "copyfile")))
    ELSE IF SubSeq(destination_file_path, 1, Len(destination_file_path) - 1)
                \notin fs.dirs
    THEN Outcome(fs, Some(Exception("OSError", "ENOENT", <<>>, "copyfile")))
    ELSE IF os.copy_error # "None"
    THEN Outcome(fs, Some(Exception("OSError", os.copy_error, <<>>, "copyfile")))
    ELSE Outcome([fs EXCEPT !.files = (destination_file_path
                                           :> fs.files[source_file_path]) @@ @],
                 None)

back_up_file(fs, directory_path, filename, file_extension, os) ==
    LET unused_suffixed_filename ==
            get_unused_suffixed_filename(fs, directory_path, filename,
                                         file_extension)
        source_file_path ==
            PathPlus(os_path_join(directory_path, <<filename>>), file_extension)
        destination_file_path ==
            os_path_join(directory_path, unused_suffixed_filename)
    IN  Let(copyfile(fs, source_file_path, destination_file_path, os),
            LAMBDA copied :
                IF copied.raised # None /\ copied.raised[1].errno = "ENOENT"
                THEN Outcome(fs, None)
                ELSE copied)

\* The calls of save_files: the output directory is absolute or relative; of
\* the image and its backups 0 and 1 any may exist; a directory of the same
\* name may exist inside the output directory, empty or with files named like
\* backups.
SaveInputs ==
    LET directories ==
            { <<FileName.root, FileName.out>>, <<FileName.out>> }
        backup(directory, i) ==
            PathPlus(directory \o <<FileName.rig>>,
                     <<".">> \o StrOfInt(i) \o FileName.output_file_extension)
        image(directory) ==
            PathPlus(directory \o <<FileName.rig>>,
                     FileName.output_file_extension)
        files(directory, has_image, backups, nested) ==
            [ path \in (IF has_image THEN {image(directory)} ELSE {})
                       \cup { backup(directory, i) : i \in backups }
                       \cup (IF nested = "files"
                             THEN { backup(directory \o <<FileName.out>>, i) :
                                        i \in 0..2 }
                             ELSE {})
              |-> IF path = image(directory) THEN "old image"
                  ELSE IF Len(path) = Len(directory) + 1 THEN "old backup"
                  ELSE "other file" ]
    IN  { [ dot_text |-> "dot text",
            dot_source_file_path |->
                <<FileName.root, FileName.tmp, FileName.source>>,
            output_directory_path |-> directory,
            output_filename |-> FileName.rig,
            file_system |->
                [ files |-> files(directory, has_image, backups, nested),
                  dirs |-> { <<FileName.root>>,
                             <<FileName.root, FileName.tmp>>, directory }
                           \cup (IF nested = "none" THEN {}
                                 ELSE {directory \o <<FileName.out>>}) ],
            os |-> [ write_error |-> write_error,
                     copy_error |-> copy_error,
                     start_error |-> start_error,
                     returncode |-> returncode,
                     stderr |-> stderr ] ] :
          directory \in directories,
          has_image \in BOOLEAN,
          backups \in SUBSET {0, 1},
          nested \in {"none", "empty", "files"},
          write_error \in {"None", "EACCES"},
          copy_error \in {"None", "EACCES"},
          start_error \in {"None", "ENOENT", "EACCES"},
          returncode \in {0, 1, -9},
          stderr \in {<<>>, <<"s", "y", "n", "t", "a", "x", " ", "e", "r", "r", "o", "r">>} }

InitSave ==
    /\ NameIdle
    /\ scene = NoScene
    /\ BoneIdle
    /\ GraphIdle
    /\ RenderIdle
    /\ save_args \in SaveInputs
    /\ save_pc = "save_temp_dot_source_file"
    /\ file_system = save_args.file_system
    /\ save_raised = None
    /\ save_log = <<>>

\* The outcome of a step of save_files_async: an exception ends the coroutine.
SaveStep(outcome, operation, next_pc) ==
    /\ file_system' = outcome.file_system
    /\ save_raised' = outcome.raised
    /\ save_log' = Append(save_log, operation)
    /\ save_pc' = IF outcome.raised = None THEN next_pc ELSE "return"
    /\ UNCHANGED <<name_vars, scene, bone_vars, graph_vars, render_vars,
                   save_args>>

SaveTempDotSourceFile ==
    /\ save_pc = "save_temp_dot_source_file"
    /\ \E outcome \in { save_temp_dot_source_file(
                            file_system, save_args.dot_text,
                            save_args.dot_source_file_path, save_args.os) } :
           SaveStep(outcome, "save_temp_dot_source_file", "back_up_file")

BackUpFile ==
    /\ save_pc = "back_up_file"
    /\ \E outcome \in { back_up_file(
                            file_system, save_args.output_directory_path,
                            save_args.output_filename,
                            FileName.output_file_extension, save_args.os) } :
           SaveStep(outcome, "back_up_file", "exec_graphviz_async")

ExecGraphvizAsync ==
    /\ save_pc = "exec_graphviz_async"
    /\ \E outcome \in { exec_graphviz_async(
                            file_system, save_args.dot_source_file_path,
                            PathPlus(os_path_join(
                                         save_args.output_directory_path,
                                         <<save_args.output_filename>>),
                                     FileName.output_file_extension),
                            save_args.os) } :
           SaveStep(outcome, "exec_graphviz_async", "return")

\* save_files_async ends and asyncio.run hands its result or its exception to
\* the caller of save_files.
SaveFilesReturn ==
    /\ save_pc = "return"
    /\ save_pc' = "done"
    /\ UNCHANGED <<name_vars, scene, bone_vars, graph_vars, render_vars,
                   save_args, file_system, save_raised, save_log>>

NextSave ==
    \/ SaveTempDotSourceFile
    \/ BackUpFile
    \/ ExecGraphvizAsync
    \/ SaveFilesReturn

SpecSave == InitSave /\ [][NextSave]_vars

-----------------------------------------------------------------------------
(* Properties of the name analysis *)

StartsWith(s, t) == Len(s) >= Len(t) /\ FirstN(s, Len(t)) = t
EndsWith(s, t) == Len(s) >= Len(t) /\ LastN(s, Len(t)) = t

OtherSide(side) == IF side = "left" THEN "right" ELSE "left"

Lower(c) ==
    CASE c = "R" -> "r" [] c = "I" -> "i" [] c = "G" -> "g" [] c = "H" -> "h"
      [] c = "T" -> "t" [] c = "L" -> "l" [] c = "E" -> "e" [] c = "F" -> "f"
      [] OTHER -> c

EqualIgnoringCase(s, t) ==
    /\ Len(s) = Len(t)
    /\ \A i \in 1..Len(s) : Lower(s[i]) = Lower(t[i])

\* The name without its numeric suffix.
StemOf(name) == DropLast(name, Len(get_name_numeric_suffix(name)))

\* The stem begins or ends with Right/Left in a spelling other than the six
\* canonical ones.
HasNonCanonicalWord(name) ==
    \E w \in (RightWords \cup LeftWords) \ CanonicalWords :
        StartsWith(StemOf(name), w) \/ EndsWith(StemOf(name), w)

\* The side a suffix marker or a prefix marker stands for.
SuffixMarkerSide(m) ==
    IF m \in RightWords \/ (Len(m) = 2 /\ m[2] \in {"r", "R"})
    THEN "right" ELSE "left"
PrefixMarkerSide(m) ==
    IF m \in RightWords \/ (Len(m) = 2 /\ m[1] \in {"r", "R"})
    THEN "right" ELSE "left"

(* C4, as stated: whenever parse_sided_bone_name(name) returns a result,   *)
(* parse_sided_bone_name(opposite) returns a result of the other side      *)
(* whose opposite name is exactly the original name.                       *)
C4_RoundTripExact ==
    name_op = "parse_opposite" =>
        /\ name_result_1 # None
        /\ name_result_1[1] = OtherSide(name_result_0[1])
        /\ name_result_1[2] = bone_name_0

(* C4, amended: the second parse returns the other side and a name equal   *)
(* to the original up to letter case; it is exactly the original whenever  *)
(* the stem neither begins nor ends with a non-canonical spelling of       *)
(* Right/Left.                                                             *)
C4_RoundTripUpToCase ==
    name_op = "parse_opposite" =>
        /\ name_result_1 # None
        /\ name_result_1[1] = OtherSide(name_result_0[1])
        /\ EqualIgnoringCase(name_result_1[2], bone_name_0)
        /\ (~ HasNonCanonicalWord(bone_name_0) => name_result_1[2] = bone_name_0)

C4_Witness ==
    /\ name_op = "parse_opposite"
    /\ name_result_0[1] = "right"
    /\ name_result_1 # None
    /\ name_result_1[1] = "left"
    /\ HasNonCanonicalWord(bone_name_0)
    /\ name_result_1[2] # bone_name_0

(* C5: symmetrically_match_bone_names(a, b) equals                         *)
(* symmetrically_match_bone_names(b, a), and is true exactly when a and b  *)
(* are equal and unsided, or unequal, both sided, of opposite sides and    *)
(* each the derived opposite name of the other.                            *)
C5_MatchSymmetric ==
    name_op = "match_both" =>
        LET p0 == parse_sided_bone_name(bone_name_0)
            p1 == parse_sided_bone_name(bone_name_1)
        IN  /\ name_result_0 = name_result_1
            /\ name_result_0 =
                 ( \/ (bone_name_0 = bone_name_1 /\ p0 = None)
                   \/ ( /\ bone_name_0 # bone_name_1
                        /\ p0 # None /\ p1 # None
                        /\ p0[1] = OtherSide(p1[1])
                        /\ p0[2] = bone_name_1
                        /\ p1[2] = bone_name_0 ) )

C5_Witness ==
    /\ name_op = "match_both"
    /\ bone_name_0 # bone_name_1
    /\ name_result_0 = TRUE
    /\ name_result_1 = TRUE

(* C9: a stem that starts with a spelling of Right or Left, and carries no *)
(* suffix marker, is sided exactly when the same spelling at the end of a  *)
(* stem is, and has the same side.                                         *)
C9_PrefixWordsAsSuffixWords ==
    name_op = "stem" =>
        \A w \in RightWords \cup LeftWords :
            ( /\ StartsWith(bone_name_0, w)
              /\ ~ \E m \in SuffixMarkers : EndsWith(bone_name_0, m) )
            => name_result_0[1] = parse_bone_name_stem(<<"x">> \o w)[1]

\* How many characters of a marker name the side: the letter of a
\* separator+letter marker (the separator stays), or the whole word.
MarkerLetters(m) == IF Len(m) = 2 THEN 1 ELSE Len(m)

(* C10: when a stem ends with a suffix side marker, the returned side is   *)
(* that marker's side whatever the stem starts with, and the opposite and  *)
(* bilateral names keep everything before the suffix marker unchanged: the *)
(* opposite name ends with a suffix marker of the other side, the          *)
(* bilateral name with the mirror symbol in place of the marker's letter   *)
(* or word.                                                                *)
C10_SuffixPriority ==
    name_op = "stem" =>
        \A m \in SuffixMarkers :
            EndsWith(bone_name_0, m) =>
                LET keep == Len(bone_name_0) - Len(m)
                    opposite_marker == DropFirst(name_result_0[2], keep)
                IN  /\ name_result_0[1] = SuffixMarkerSide(m)
                    /\ FirstN(name_result_0[2], keep) = FirstN(bone_name_0, keep)
                    /\ opposite_marker \in SuffixMarkers
                    /\ SuffixMarkerSide(opposite_marker) = OtherSide(SuffixMarkerSide(m))
                    /\ name_result_0[3] =
                         Append(DropLast(bone_name_0, MarkerLetters(m)), mirror_symbol)

C10_Witness ==
    /\ name_op = "stem"
    /\ \E p \in PrefixMarkers, m \in SuffixMarkers :
          /\ Len(bone_name_0) >= Len(p) + Len(m)
          /\ StartsWith(bone_name_0, p)
          /\ EndsWith(bone_name_0, m)
          /\ PrefixMarkerSide(p) = "right"
          /\ SuffixMarkerSide(m) = "left"
          /\ name_result_0[1] = "left"
          /\ StartsWith(name_result_0[2], p)

\* The numeric suffix of a name: the dot and the digits at the end of the
\* name, if the name ends in a dot followed by one or more digits.
NumericSuffixOf(name) ==
    IF \E k \in 1..(Len(name) - 1) :
            /\ name[Len(name) - k] = "."
            /\ \A i \in (Len(name) - k + 1)..Len(name) : name[i] \in Digits
    THEN LET k == CHOOSE k \in 1..(Len(name) - 1) :
                    /\ name[Len(name) - k] = "."
                    /\ \A i \in (Len(name) - k + 1)..Len(name) : name[i] \in Digits
         IN  SubSeq(name, Len(name) - k, Len(name))
    ELSE <<>>

\* C11: parse_sided_bone_name strips a trailing numeric suffix (a dot and one
\* or more digits at the end of the name) before the side is detected and
\* appends it unchanged to the opposite name and to the bilateral name;
\* 'Arm.R.003' has the opposite name 'Arm.L.003'.  A name whose stem is
\* unsided gives None whatever its numeric suffix.
C11_NumericSuffixKept ==
    name_op = "parse" =>
        LET suffix == NumericSuffixOf(bone_name_0)
            stem == SubSeq(bone_name_0, 1, Len(bone_name_0) - Len(suffix))
            parsed_stem == parse_bone_name_stem(stem)
        IN  /\ stem \o suffix = bone_name_0
            /\ IF parsed_stem[1] = "None"
               THEN name_result_0 = None
               ELSE name_result_0 =
                        <<parsed_stem[1], parsed_stem[2] \o suffix,
                          parsed_stem[3] \o suffix>>
            /\ bone_name_0 = <<"A", "r", "m", ".", "R", ".", "0", "0", "3">>
                  => /\ name_result_0 # None
                     /\ name_result_0[2]
                           = <<"A", "r", "m", ".", "L", ".", "0", "0", "3">>

\* 'Arm.R.003' was parsed: right, 'Arm.L.003', and a bilateral name that ends
\* in '.003'.
C11_Witness ==
    /\ name_op = "parse"
    /\ bone_name_0 = <<"A", "r", "m", ".", "R", ".", "0", "0", "3">>
    /\ name_result_0 # None
    /\ name_result_0[1] = "right"
    /\ name_result_0[2] = <<"A", "r", "m", ".", "L", ".", "0", "0", "3">>
    /\ SubSeq(name_result_0[3], Len(name_result_0[3]) - 3, Len(name_result_0[3]))
          = <<".", "0", "0", "3">>

-----------------------------------------------------------------------------
(* Properties of bone classification *)

\* A symmetric-name match, as the documentation words it: both blank, the
\* same unsided name, or each the derived opposite name of the other.
SymmetricNameMatch(a, b) ==
    \/ (a = Name.Blank /\ b = Name.Blank)
    \/ (a = b /\ parse_sided_bone_name(a) = None)
    \/ ( /\ a # b
         /\ parse_sided_bone_name(a) # None
         /\ parse_sided_bone_name(b) # None
         /\ parse_sided_bone_name(a)[2] = b
         /\ parse_sided_bone_name(b)[2] = a )

ConstraintListsMatch(list_0, list_1, armature_object) ==
    /\ Len(list_0) = Len(list_1)
    /\ \A i \in 1..Len(list_0) :
          /\ list_0[i].type = list_1[i].type
          /\ list_0[i].target = list_1[i].target
          /\ IF list_0[i].target = Some(armature_object)
             THEN SymmetricNameMatch(list_0[i].subtarget, list_1[i].subtarget)
             ELSE list_0[i].subtarget = list_1[i].subtarget

ParentsMatch(bone_0, bone_1) ==
    \/ (bone_0.parent = None /\ bone_1.parent = None)
    \/ ( /\ bone_0.parent # None
         /\ bone_1.parent # None
         /\ SymmetricNameMatch(bone_0.parent[1], bone_1.parent[1]) )

SymmetricTypes == {"left_symmetric", "right_symmetric"}

(* C6: classify_bone returns 'asymmetric' for an unsided name,             *)
(* 'antisymmetric' for a sided name whose opposite bone is missing, and    *)
(* with the opposite bone present 'left_symmetric'/'right_symmetric' (by   *)
(* the bone's own side) exactly when parents and constraints match, else   *)
(* 'antisymmetric'.  Hand.L and Hand.R without parents and constraints are *)
(* left_symmetric and right_symmetric; with different constraint counts    *)
(* both are antisymmetric.                                                 *)
C6_ClassifyBone ==
    bone_op = "classify" =>
        LET bone == BoneNamed("Rig", bone_args[1])
            parsed == parse_sided_bone_name(bone.name)
            opposite == BoneNamed("Rig", parsed[2])
        IN  /\ bone_result[1] =
                 IF parsed = None THEN "asymmetric"
                 ELSE IF ~ HasBone("Rig", parsed[2]) THEN "antisymmetric"
                 ELSE IF /\ ParentsMatch(bone, opposite)
                         /\ ConstraintListsMatch(bone.constraints,
                                                 opposite.constraints, "Rig")
                 THEN (IF parsed[1] = "left" THEN "left_symmetric"
                                             ELSE "right_symmetric")
                 ELSE "antisymmetric"
            /\ ( /\ bone.name \in {Name.HandL, Name.HandR}
                 /\ HasBone("Rig", Name.HandL) /\ HasBone("Rig", Name.HandR) )
               => LET left == BoneNamed("Rig", Name.HandL)
                      right == BoneNamed("Rig", Name.HandR)
                  IN  /\ ( /\ left.parent = None /\ right.parent = None
                           /\ left.constraints = <<>> /\ right.constraints = <<>> )
                         => bone_result[1] =
                              (IF bone.name = Name.HandL THEN "left_symmetric"
                                                         ELSE "right_symmetric")
                      /\ Len(left.constraints) # Len(right.constraints)
                         => bone_result[1] = "antisymmetric"

C6_Witness ==
    /\ bone_op = "classify"
    /\ bone_args = <<Name.HandR>>
    /\ bone_result[1] = "right_symmetric"
    /\ BoneNamed("Rig", Name.HandR).constraints # <<>>

C8_ConstraintNamesCompared ==
    /\ (bone_op = "match_constraints" /\ bone_result = TRUE) =>
          LET list_0 == BoneNamed("Rig", bone_args[1]).constraints
              list_1 == BoneNamed("Rig", bone_args[2]).constraints
          IN  \A i \in 1..Len(list_0) : list_0[i].name = list_1[i].name
    /\ (bone_op = "classify" /\ bone_result[1] \in SymmetricTypes) =>
          LET list_0 == BoneNamed("Rig", bone_args[1]).constraints
              list_1 == BoneNamed("Rig", bone_result[2]).constraints
          IN  \A i \in 1..Len(list_0) : list_0[i].name = list_1[i].name

-----------------------------------------------------------------------------
(* Properties of the graph builder *)

\* The IDs that are nodes of the graph: members of free_nodes or of a
\* cluster's node set.
NodeIds ==
    graph_data.free_nodes
        \cup UNION { graph_data.cluster_nodes_dict[c] :
                        c \in DOMAIN graph_data.cluster_nodes_dict }

\* The IDs registered for a Blender struct that are not edges.
RegisteredNodeIds ==
    { struct_entity_id_dict[i][2] : i \in 1..Len(struct_entity_id_dict) }
        \ DOMAIN graph_data.edge_tuple_dict

\* In how many of free_nodes and the clusters' node sets node_id lies.
Containers(node_id) ==
    (IF node_id \in graph_data.free_nodes THEN 1 ELSE 0)
        + Cardinality({ c \in DOMAIN graph_data.cluster_nodes_dict :
                            node_id \in graph_data.cluster_nodes_dict[c] })

ConstraintEdgeCalls ==
    { [ origin |-> ObjectKey(blender_structs[r]),
        constraints |-> ConstraintsOf(ObjectKey(blender_structs[r]),
                                      scene.objects[blender_structs[r]].constraints),
        home |-> None ] : r \in 1..Len(blender_structs) }
    \cup
    { [ origin |-> BoneKey(call[1], BonesOf(call[1])[call[2]].name),
        constraints |-> ConstraintsOf(
                            BoneKey(call[1], BonesOf(call[1])[call[2]].name),
                            BonesOf(call[1])[call[2]].constraints),
        home |-> Some(call[1]) ] :
        call \in { c \in Objects \X (1..3) :
                    /\ \E r \in 1..Len(blender_structs) : blender_structs[r] = c[1]
                    /\ scene.objects[c[1]].type = "ARMATURE"
                    /\ c[2] <= Len(BonesOf(c[1]))
                    /\ ~ is_bone_excluded(BonesOf(c[1])[c[2]], c[1])
                    /\ classify_bone(BonesOf(c[1])[c[2]], c[1])[1]
                          # "right_symmetric" } }

\* The struct of the destination node of a constraint with a target, None
\* when the destination is excluded.
DestinationStruct(constraint, home) ==
    LET target == constraint.target[1]
    IN  IF scene.objects[target].type = "ARMATURE"
        THEN IF constraint.subtarget # Name.Blank
             THEN IF \/ is_bone_excluded(BoneNamed(target, constraint.subtarget), target)
                     \/ /\ home = Some(target)
                        /\ classify_bone(BoneNamed(target, constraint.subtarget),
                                         target)[1] = "right_symmetric"
                  THEN None
                  ELSE BoneKey(target, constraint.subtarget)
             ELSE ObjectKey(target)
        ELSE IF scene.objects[target].type = "MESH"
                /\ constraint.subtarget # Name.Blank
        THEN VertexGroupKey(target, constraint.subtarget)
        ELSE ObjectKey(target)

\* The graph has the 'constraint' edge of the constraint, labelled with the
\* constraint's name, from the origin's node to the destination's node.
HasConstraintEdge(origin, constraint, destination) ==
    LET origin_node_id == RegistryGet(struct_entity_id_dict, origin)
        destination_node_id == RegistryGet(struct_entity_id_dict, destination)
        edge_id == RegistryGet(struct_entity_id_dict, constraint.key)
    IN  /\ origin_node_id # None
        /\ destination_node_id # None
        /\ edge_id # None
        /\ edge_id[1] \in DOMAIN graph_data.edge_tuple_dict
        /\ graph_data.edge_tuple_dict[edge_id[1]]
              = <<origin_node_id[1], destination_node_id[1]>>
        /\ graph_data.entity_label_dict[edge_id[1]] = Some(constraint.name)
        /\ graph_data.entity_categories_dict[edge_id[1]] = Tuple(<<"constraint">>)

\* The constraint has an edge in the graph.
HasSomeEdge(constraint) ==
    RegistryGet(struct_entity_id_dict, constraint.key) # None

RootsDeclared == pc \in {"parents", "root_style", "prune", "done"}

\* C2: in declare_constraint_edges a constraint with no target contributes no
\* edge, and every other constraint of the list whose target's destination
\* node is not excluded contributes its 'constraint' edge, labelled with its
\* name, from the origin to the destination, before or after a targetless
\* constraint.  (The loop ends at a targetless constraint, so this fails.)
C2_TargetlessConstraintSkippedAlone ==
    RootsDeclared =>
        \A call \in ConstraintEdgeCalls :
            \A i \in 1..Len(call.constraints) :
                IF call.constraints[i].target = None
                THEN ~ HasSomeEdge(call.constraints[i])
                ELSE DestinationStruct(call.constraints[i], call.home) # None
                        => HasConstraintEdge(
                               call.origin, call.constraints[i],
                               DestinationStruct(call.constraints[i], call.home))

\* What the loop does: the constraints before the first targetless one
\* contribute their edges, the others none.
C2_EdgesUpToFirstTargetless ==
    RootsDeclared =>
        \A call \in ConstraintEdgeCalls :
            \A i \in 1..Len(call.constraints) :
                IF \E j \in 1..i : call.constraints[j].target = None
                THEN ~ HasSomeEdge(call.constraints[i])
                ELSE IF DestinationStruct(call.constraints[i], call.home) # None
                THEN HasConstraintEdge(
                         call.origin, call.constraints[i],
                         DestinationStruct(call.constraints[i], call.home))
                ELSE ~ HasSomeEdge(call.constraints[i])

\* C3: within one build declare_entity_id returns the same ID for the same
\* non-None key and registry, never returns that ID for another key or for a
\* keyless declaration, and a keyless declaration returns an ID that no
\* earlier call of the build returned.
C3_DeclareEntityId ==
    \A i \in 1..Len(id_log) : \A j \in 1..Len(id_log) :
        /\ (/\ id_log[i][2] # None
            /\ id_log[i][1] = id_log[j][1]
            /\ id_log[i][2] = id_log[j][2])
              => id_log[i][3] = id_log[j][3]
        /\ (id_log[i][2] # None /\ id_log[i][3] = id_log[j][3])
              => (id_log[i][1] = id_log[j][1] /\ id_log[i][2] = id_log[j][2])
        /\ (id_log[j][2] = None /\ i < j) => id_log[i][3] # id_log[j][3]

\* A build in which a key was looked up again after keyless declarations and
\* declarations of other keys.
C3_Witness ==
    \E i \in 1..Len(id_log) : \E k \in 1..Len(id_log) : \E j \in 1..Len(id_log) :
        /\ i < k /\ k < j
        /\ id_log[i][2] # None
        /\ id_log[i][1] = id_log[j][1]
        /\ id_log[i][2] = id_log[j][2]
        /\ id_log[k][2] # None
        /\ id_log[k][2] # id_log[i][2]
        /\ \E n \in 1..Len(id_log) : id_log[n][2] = None

\* The constraints declare_constraint_edges looked at for the root objects,
\* with their origin and home armature: those of ConstraintEdgeCalls that
\* have no targetless constraint before them in their list.
DeclaredConstraints ==
    { [ origin |-> d[1].origin, constraint |-> d[1].constraints[d[2]],
        home |-> d[1].home ] :
        d \in { c \in ConstraintEdgeCalls \X (1..MaxGraphConstraints) :
                  /\ c[2] <= Len(c[1].constraints)
                  /\ \A j \in 1..c[2] : c[1].constraints[j].target # None } }

\* The bones of the armature objects, as <<armature_object, bone>>.
SceneBones ==
    { <<b[1], BonesOf(b[1])[b[2]]>> :
        b \in { c \in Objects \X (1..3) :
                  /\ scene.objects[c[1]].type = "ARMATURE"
                  /\ c[2] <= Len(BonesOf(c[1])) } }

\* The bone has a node, and the node lies in the cluster of its armature.
BoneHasNode(armature_object, name) ==
    LET node_id == RegistryGet(struct_entity_id_dict, BoneKey(armature_object, name))
        cluster_id == RegistryGet(struct_cluster_id_dict, ObjectKey(armature_object))
    IN  /\ node_id # None
        /\ cluster_id # None
        /\ node_id[1] \in graph_data.cluster_nodes_dict[cluster_id[1]]

RootObjects == { blender_structs[r] : r \in 1..Len(blender_structs) }

\* The entries of the registry whose ID is a node of the graph.
NodeStructs ==
    { struct_entity_id_dict[i][1] :
        i \in { n \in 1..Len(struct_entity_id_dict) :
                  struct_entity_id_dict[n][2] \in NodeIds } }

\* The entries of the registry that are constraints, i.e. edges.
EdgeStructs ==
    { struct_entity_id_dict[i][1] :
        i \in { n \in 1..Len(struct_entity_id_dict) :
                  struct_entity_id_dict[n][1][1] = "constraint" } }

\* C13: constraint destinations are not expanded.  Every 'constraint' edge of
\* the graph starts at the node of a root object or of a bone of a root
\* armature; an object that is not a root has no nodes but those named as
\* destinations of such constraints (and, for a mesh, its head node), and no
\* edge for a constraint of its own or of its bones.
C13_DestinationsNotExpanded ==
    RootsDeclared =>
        /\ \A edge_id \in DOMAIN graph_data.edge_tuple_dict :
              InCategories("constraint", graph_data.entity_categories_dict[edge_id])
                  => \E struct \in NodeStructs :
                        /\ struct[1] \in {"object", "bone"}
                        /\ struct[2] \in RootObjects
                        /\ RegistryGet(struct_entity_id_dict, struct)
                              = Some(graph_data.edge_tuple_dict[edge_id][1])
        /\ \A struct \in NodeStructs :
              struct[2] \notin RootObjects
                  => \/ \E d \in DeclaredConstraints :
                           struct = DestinationStruct(d.constraint, d.home)
                     \/ /\ struct = ObjectKey(struct[2])
                        /\ scene.objects[struct[2]].type = "MESH"
                        /\ \E d \in DeclaredConstraints :
                              d.constraint.target = Some(struct[2])
        /\ \A struct \in EdgeStructs : struct[2] \in RootObjects

\* The returned graph of the root Rig, whose bone Arm.L has a constraint on
\* the bone Leg.R of the armature Other: Leg.R has a node, Leg.L has none,
\* Leg.R's own constraint has no edge and its target Empty no node.
C13_Witness ==
    /\ pc = "done"
    /\ blender_structs = <<"Rig">>
    /\ BoneHasNode("Other", Name.LegR)
    /\ ~ BoneHasNode("Other", Name.LegL)
    /\ BonesOf("Other")[2].constraints[1].target = Some("Empty")
    /\ RegistryGet(struct_entity_id_dict, ObjectKey("Empty")) = None
    /\ RegistryGet(struct_entity_id_dict, ObjectKey("Other")) = None
    /\ \E struct \in EdgeStructs : struct[3] = Name.ArmL

\* The node a parent edge of the registered struct has to end at, None if
\* there is to be no edge: the node of the parent bone of a bone; for an
\* object, the node of the bone it is parented to when that bone has a node,
\* and else the node of the parent object.
ParentNodeOf(struct) ==
    IF struct[1] = "bone"
    THEN IF BoneNamed(struct[2], struct[3]).parent = None
         THEN None
         ELSE RegistryGet(struct_entity_id_dict,
                          BoneKey(struct[2], BoneNamed(struct[2], struct[3]).parent[1]))
    ELSE IF struct[1] = "object" /\ scene.objects[struct[2]].parent # None
    THEN LET object == scene.objects[struct[2]]
             bone_node_id ==
                 IF /\ object.parent_type = "BONE"
                    /\ scene.objects[object.parent[1]].type = "ARMATURE"
                 THEN RegistryGet(struct_entity_id_dict,
                                  BoneKey(object.parent[1], object.parent_bone))
                 ELSE None
         IN  IF bone_node_id # None
             THEN bone_node_id
             ELSE RegistryGet(struct_entity_id_dict, ObjectKey(object.parent[1]))
    ELSE None

\* C14: a step of the parent pass of analyze_rig_graph creates no node and no
\* cluster.  For the registered entity it looks at it adds exactly one edge,
\* without label and with the category 'parent', from the entity's node to the
\* parent's node if the parent has a node, and nothing otherwise; for an
\* object parented to a bone of an armature the edge ends at the bone's node
\* if the bone has one, else at the armature's own node if it has one.
C14_ParentPass ==
    [][ (pc = "parents" /\ pc' = "parents") =>
          LET struct == struct_entity_id_dict[index][1]
              entity_id == struct_entity_id_dict[index][2]
              parent_node_id == ParentNodeOf(struct)
              new_ids == DOMAIN graph_data'.edge_tuple_dict
                            \ DOMAIN graph_data.edge_tuple_dict
          IN  /\ struct_entity_id_dict' = struct_entity_id_dict
              /\ struct_cluster_id_dict' = struct_cluster_id_dict
              /\ graph_data'.free_nodes = graph_data.free_nodes
              /\ graph_data'.cluster_nodes_dict = graph_data.cluster_nodes_dict
              /\ graph_data'.entity_label_dict = graph_data.entity_label_dict
              /\ \A edge_id \in DOMAIN graph_data.edge_tuple_dict :
                    /\ edge_id \in DOMAIN graph_data'.edge_tuple_dict
                    /\ graph_data'.edge_tuple_dict[edge_id]
                          = graph_data.edge_tuple_dict[edge_id]
              /\ \A id \in DOMAIN graph_data.entity_categories_dict :
                    /\ id \in DOMAIN graph_data'.entity_categories_dict
                    /\ graph_data'.entity_categories_dict[id]
                          = graph_data.entity_categories_dict[id]
              /\ DOMAIN graph_data'.entity_categories_dict
                    = DOMAIN graph_data.entity_categories_dict \cup new_ids
              /\ IF parent_node_id = None
                 THEN new_ids = {}
                 ELSE /\ Cardinality(new_ids) = 1
                      /\ \A edge_id \in new_ids :
                            /\ graph_data'.edge_tuple_dict[edge_id]
                                  = <<entity_id, parent_node_id[1]>>
                            /\ graph_data'.entity_categories_dict[edge_id]
                                  = Tuple(<<"parent">>)
                            /\ edge_id \notin DOMAIN graph_data'.entity_label_dict
                            /\ edge_id \notin NodeIds
      ]_vars

\* The graph has the 'parent' edge from the first to the second node.
HasParentEdge(origin, destination) ==
    \E edge_id \in DOMAIN graph_data.edge_tuple_dict :
        /\ graph_data.entity_categories_dict[edge_id] = Tuple(<<"parent">>)
        /\ RegistryGet(struct_entity_id_dict, origin)
              = Some(graph_data.edge_tuple_dict[edge_id][1])
        /\ RegistryGet(struct_entity_id_dict, destination)
              = Some(graph_data.edge_tuple_dict[edge_id][2])

\* After the parent pass: the mesh Target is parented to the bone Arm.L of
\* Rig, its head's edge ends at Arm.L's node, Arm.L's edge at Spine's node,
\* and Rig's head has a node but no parent edge ends there.
C14_Witness ==
    /\ pc = "root_style"
    /\ scene.objects["Target"].parent = Some("Rig")
    /\ scene.objects["Target"].parent_type = "BONE"
    /\ HasParentEdge(ObjectKey("Target"), BoneKey("Rig", Name.ArmL))
    /\ HasParentEdge(BoneKey("Rig", Name.ArmL), BoneKey("Rig", Name.Spine))
    /\ RegistryGet(struct_entity_id_dict, ObjectKey("Rig")) # None
    /\ ~ HasParentEdge(ObjectKey("Target"), ObjectKey("Rig"))

\* The head nodes declared during the build, as <<object, node ID, cluster
\* ID>>: the nodes declared for an armature or mesh object itself.
DeclaredHeads ==
    { <<id_log[h[1]][2][2], id_log[h[1]][3], id_log[h[2]][3]>> :
        h \in { n \in (1..Len(id_log)) \X (1..Len(id_log)) :
                  /\ id_log[n[1]][1] = "struct_entity_id_dict"
                  /\ id_log[n[1]][2] # None
                  /\ id_log[n[1]][2][1] = "object"
                  /\ scene.objects[id_log[n[1]][2][2]].type \in {"ARMATURE", "MESH"}
                  /\ id_log[n[2]][1] = "struct_cluster_id_dict"
                  /\ id_log[n[2]][2] = id_log[n[1]][2] } }

\* Some edge has the node as its origin or destination.
IsEdgeEndpoint(node_id) ==
    \E edge_id \in DOMAIN graph_data.edge_tuple_dict :
        \/ graph_data.edge_tuple_dict[edge_id][1] = node_id
        \/ graph_data.edge_tuple_dict[edge_id][2] = node_id

\* C15: in the graph analyze_rig_graph returns, a head node has been removed
\* from its cluster exactly when no edge has it as origin or destination and
\* its cluster had more than one node; a head that is the only node of its
\* cluster is kept, and a head that is an endpoint of an edge is kept.
C15_UnusedHeadsRemoved ==
    pc = "done" =>
        \A head \in DeclaredHeads :
            LET object == head[1]
                node_id == head[2]
                cluster_nodes == graph_data.cluster_nodes_dict[head[3]]
                removed == node_id \notin cluster_nodes
            IN  /\ removed
                    <=> /\ ~ IsEdgeEndpoint(node_id)
                        /\ Cardinality(cluster_nodes \cup {node_id}) > 1
                /\ removed
                    <=> RegistryGet(struct_entity_id_dict, ObjectKey(object)) = None
                /\ removed => node_id \notin NodeIds
                /\ cluster_nodes # {}

\* A returned graph in which one head was removed, one head was kept as the
\* only node of its cluster, and one head was kept in a cluster with other
\* nodes because an edge ends or starts at it.
C15_Witness ==
    /\ pc = "done"
    /\ \E head \in DeclaredHeads :
          head[2] \notin graph_data.cluster_nodes_dict[head[3]]
    /\ \E head \in DeclaredHeads :
          graph_data.cluster_nodes_dict[head[3]] = {head[2]}
    /\ \E head \in DeclaredHeads :
          /\ head[2] \in graph_data.cluster_nodes_dict[head[3]]
          /\ Cardinality(graph_data.cluster_nodes_dict[head[3]]) > 1
          /\ IsEdgeEndpoint(head[2])

\* C16: in every graph of analyze_rig_graph the categories entry of every
\* entity is a tuple of whole category tags: that of a head node is a tuple
\* with a head tag in it, that of a vertex group node a tuple with the tag
\* 'vertex_group' in it, so that iterating it never yields the characters of
\* a tag.  (The builder hands the str 'armature_head', 'mesh_head' and
\* 'vertex_group' to declare_node, so this fails.)
C16_CategoriesAreTuples ==
    \A i \in 1..Len(struct_entity_id_dict) :
        LET struct == struct_entity_id_dict[i][1]
            categories == graph_data.entity_categories_dict[struct_entity_id_dict[i][2]]
        IN  /\ categories.is_tuple
            /\ (struct[1] = "object"
                  /\ scene.objects[struct[2]].type \in {"ARMATURE", "MESH"})
                  => \E n \in 1..Len(categories.items) :
                        categories.items[n] \in {"head", "armature_head", "mesh_head"}
            /\ struct[1] = "vertex_group"
                  => \E n \in 1..Len(categories.items) :
                        categories.items[n] = "vertex_group"

\* How often the tag 'root' occurs in the categories.
RootTags(categories) ==
    Cardinality({ n \in 1..Len(categories.items) : categories.items[n] = "root" })

C18_ExcludedBones ==
    /\ \A b \in SceneBones :
          is_bone_excluded(b[2], b[1]) =>
              /\ RegistryGet(struct_entity_id_dict, BoneKey(b[1], b[2].name)) = None
              /\ \A n \in 1..Len(id_log) : id_log[n][2] # BoneKey(b[1], b[2].name)
    /\ pc = "done" =>
          \A armature_object \in RootObjects :
              (/\ scene.objects[armature_object].type = "ARMATURE"
               /\ \A b \in SceneBones :
                     b[1] = armature_object => is_bone_excluded(b[2], b[1]))
                  => /\ RegistryGet(struct_entity_id_dict, ObjectKey(armature_object))
                           # None
                     /\ graph_data.cluster_nodes_dict[
                            RegistryGet(struct_cluster_id_dict,
                                        ObjectKey(armature_object))[1]]
                           = { RegistryGet(struct_entity_id_dict,
                                           ObjectKey(armature_object))[1] }

\* The returned graph of the roots Empty, Rig, Target with every bone
\* excluded: Empty has a constraint on the bone Arm.R of Rig, declared after
\* its constraint on Rig itself; Rig's cluster holds the head node only.
C18_Witness ==
    /\ pc = "done"
    /\ blender_structs = <<"Empty", "Rig", "Target">>
    /\ \A b \in SceneBones : is_bone_excluded(b[2], b[1])
    /\ Len(scene.objects["Empty"].constraints) = 2
    /\ scene.objects["Empty"].constraints[2].subtarget = Name.ArmR
    /\ Cardinality(graph_data.cluster_nodes_dict[
            RegistryGet(struct_cluster_id_dict, ObjectKey("Rig"))[1]]) = 1
    /\ HasSomeEdge(ConstraintsOf(ObjectKey("Empty"),
                                 scene.objects["Empty"].constraints)[1])
    /\ ~ HasSomeEdge(ConstraintsOf(ObjectKey("Empty"),
                                   scene.objects["Empty"].constraints)[2])

-----------------------------------------------------------------------------
(* Properties of the DOT renderer *)

\* The value with each double quote and each backslash preceded by a
\* backslash, and otherwise unchanged.
Backslashed(value) ==
    Join(<<>>, [ i \in 1..Len(value) |->
                   IF value[i] \in {"\"", "\\"}
                   THEN <<"\\", value[i]>>
                   ELSE <<value[i]>> ])

\* The entity has a label that is neither None nor empty.
HasLabel(entity_id) ==
    /\ entity_id \in DOMAIN dot_args.entity_label_dict
    /\ dot_args.entity_label_dict[entity_id] # None
    /\ dot_args.entity_label_dict[entity_id][1] # <<>>

\* C19: every string value written between double quotes has each double
\* quote and each backslash preceded by a backslash and is otherwise
\* unchanged: the label that opens an entity's attribute list, the label of a
\* cluster, and the rank direction, the font name of the graph, of the node
\* defaults and of the edge defaults and the title in the preamble of the
\* digraph.
C19_QuotedValuesEscaped ==
    /\ (dot_op = "create_dot_attr_list" /\ HasLabel(dot_entity))
       => StartsWith(dot_text,
                     Dot.attrs_open \o Dot.label_open
                         \o Backslashed(dot_args.entity_label_dict[dot_entity][1])
                         \o Dot.quote)
    /\ (dot_op = "create_dot_cluster" /\ HasLabel(dot_entity))
       => StartsWith(dot_text,
                     Dot.subgraph_open \o StrOfInt(dot_entity) \o Dot.quote_space
                         \o Dot.brace_open \o Dot.cluster_fontsize
                         \o Dot.label_open
                         \o Backslashed(dot_args.entity_label_dict[dot_entity][1])
                         \o Dot.quote_semicolon)
    /\ dot_op = "create_dot_digraph"
       => StartsWith(dot_text,
                     Dot.digraph_open \o Dot.graph_open
                         \o Dot.rankdir_open \o Backslashed(dot_args.rankdir)
                         \o Dot.quote_space
                         \o Dot.style_rounded \o Dot.color_gray
                         \o Dot.fontname_open \o Backslashed(dot_args.fontname)
                         \o Dot.quote_space
                         \o Dot.graph_fontsize \o Dot.defaults_close
                         \o Dot.node_open \o Backslashed(dot_args.fontname)
                         \o Dot.quote_defaults_close
                         \o Dot.edge_open \o Backslashed(dot_args.fontname)
                         \o Dot.quote_defaults_close
                         \o Dot.label_open \o Backslashed(dot_args.title)
                         \o Dot.quote_semicolon)

\* What does hold: a value without double quote and backslash is written as
\* it is, and so is every other value.
QuotedValuesUnchanged ==
    /\ (dot_op = "create_dot_attr_list" /\ HasLabel(dot_entity))
       => StartsWith(dot_text,
                     Dot.attrs_open \o Dot.label_open
                         \o dot_args.entity_label_dict[dot_entity][1]
                         \o Dot.quote)
    /\ (dot_op = "create_dot_cluster" /\ HasLabel(dot_entity))
       => StartsWith(dot_text,
                     Dot.subgraph_open \o StrOfInt(dot_entity) \o Dot.quote_space
                         \o Dot.brace_open \o Dot.cluster_fontsize
                         \o Dot.label_open
                         \o dot_args.entity_label_dict[dot_entity][1]
                         \o Dot.quote_semicolon)
    /\ dot_op = "create_dot_digraph"
       => StartsWith(dot_text,
                     Dot.digraph_open \o Dot.graph_open
                         \o Dot.rankdir_open \o dot_args.rankdir
                         \o Dot.quote_space
                         \o Dot.style_rounded \o Dot.color_gray
                         \o Dot.fontname_open \o dot_args.fontname
                         \o Dot.quote_space
                         \o Dot.graph_fontsize \o Dot.defaults_close
                         \o Dot.node_open \o dot_args.fontname
                         \o Dot.quote_defaults_close
                         \o Dot.edge_open \o dot_args.fontname
                         \o Dot.quote_defaults_close
                         \o Dot.label_open \o dot_args.title
                         \o Dot.quote_semicolon)

\* The category tags of the entity in tag order: the items of the tuple in
\* entity_categories_dict (the characters, where the entry is a str).
TagsOf(entity_id) ==
    IF entity_id \notin DOMAIN dot_args.entity_categories_dict THEN <<>>
    ELSE IF dot_args.entity_categories_dict[entity_id].is_tuple
    THEN dot_args.entity_categories_dict[entity_id].items
    ELSE dot_args.entity_categories_dict[entity_id].text

\* The key/value pairs of the style configured for the tag, in dictionary
\* order; none when no style is configured.
StyleOf(tag) ==
    IF \E k \in 1..Len(dot_args.category_attrs_dict) :
           dot_args.category_attrs_dict[k][1] = tag
    THEN dot_args.category_attrs_dict[
             CHOOSE k \in 1..Len(dot_args.category_attrs_dict) :
                 dot_args.category_attrs_dict[k][1] = tag][2]
    ELSE <<>>

\* The styles of the first n tags of the entity, one after the other.
RECURSIVE StyledPairs(_, _)
StyledPairs(entity_id, n) ==
    IF n = 0 THEN <<>>
    ELSE StyledPairs(entity_id, n - 1) \o StyleOf(TagsOf(entity_id)[n])

\* C20: create_dot_attr_list composes the attribute list of an entity as the
\* label first when the entity has a non-empty label, then, for each tag in
\* tag order, every key/value pair of the tag's style in dictionary order; a
\* tag without a style contributes nothing; the last occurrence of a key in
\* the list has the value of the last tag that configures the key; an entity
\* with no label and no styled tag renders the empty text.
C20_AttrListComposition ==
    dot_op = "create_dot_attr_list" =>
        LET tags == TagsOf(dot_entity)
            pairs == StyledPairs(dot_entity, Len(tags))
            items ==
                (IF HasLabel(dot_entity)
                 THEN << Dot.label_open
                            \o escape_quotes(
                                   dot_args.entity_label_dict[dot_entity][1])
                            \o Dot.quote >>
                 ELSE <<>>)
                \o [ i \in 1..Len(pairs) |->
                       Dot.quote \o escape_quotes(pairs[i][1])
                           \o Dot.equals_open
                           \o escape_quotes(pairs[i][2]) \o Dot.quote ]
        IN  /\ items # <<>>
               => dot_text = Dot.attrs_open \o Join(Dot.comma, items)
                                 \o Dot.attrs_close
            /\ ( /\ ~ HasLabel(dot_entity)
                 /\ \A n \in 1..Len(tags) : StyleOf(tags[n]) = <<>> )
               => dot_text = <<>>
            /\ \A i \in 1..Len(pairs) :
                   (\A j \in (i + 1)..Len(pairs) : pairs[j][1] # pairs[i][1])
                   => \E n \in 1..Len(tags) :
                          /\ \E k \in 1..Len(StyleOf(tags[n])) :
                                 StyleOf(tags[n])[k] = pairs[i]
                          /\ \A m \in (n + 1)..Len(tags) :
                                 \A k \in 1..Len(StyleOf(tags[m])) :
                                     StyleOf(tags[m])[k][1] # pairs[i][1]

\* The attribute list of a labelled entity was rendered whose tags are one
\* without a style and two that configure the same key with different values.
C20_Witness ==
    /\ dot_op = "create_dot_attr_list"
    /\ HasLabel(dot_entity)
    /\ dot_text # <<>>
    /\ \E n \in 1..Len(TagsOf(dot_entity)) :
           StyleOf(TagsOf(dot_entity)[n]) = <<>>
    /\ \E m, n \in 1..Len(TagsOf(dot_entity)) :
           /\ m < n
           /\ \E j \in 1..Len(StyleOf(TagsOf(dot_entity)[m])) :
              \E k \in 1..Len(StyleOf(TagsOf(dot_entity)[n])) :
                  /\ StyleOf(TagsOf(dot_entity)[m])[j][1]
                         = StyleOf(TagsOf(dot_entity)[n])[k][1]
                  /\ StyleOf(TagsOf(dot_entity)[m])[j][2]
                         # StyleOf(TagsOf(dot_entity)[n])[k][2]

\* The number of places where the part occurs in the text.
Occurrences(part, text) ==
    Cardinality({ i \in 1..(Len(text) + 1 - Len(part)) :
                    SubSeq(text, i, i + Len(part) - 1) = part })

\* The number of node statements of the node in the text: the quoted ID
\* followed by an attribute list or a semicolon, and not the destination of an
\* edge.
NodeStatements(node_id, text) ==
    LET quoted == Dot.quote \o StrOfInt(node_id) \o Dot.quote
    IN  Occurrences(quoted \o Dot.attrs_open, text)
        + Occurrences(quoted \o Dot.semicolon, text)
        - Occurrences(Dot.arrow_open \o StrOfInt(node_id) \o Dot.quote
                          \o Dot.attrs_open, text)
        - Occurrences(Dot.arrow_open \o StrOfInt(node_id) \o Dot.quote
                          \o Dot.semicolon, text)

\* The node statements of the nodes, in their order.
NodeStatementsOf(nodes) ==
    [ i \in 1..Len(nodes) |->
        create_dot_node(nodes[i], dot_args.entity_label_dict,
                        dot_args.entity_categories_dict,
                        dot_args.category_attrs_dict) ]

\* C21: after the preamble the text of create_dot_digraph holds one node
\* statement per free node, then one subgraph block per cluster, then one edge
\* statement per edge, with that edge's origin and destination IDs, and
\* nothing else; the block of a cluster holds one node statement per member
\* node; no entity is rendered twice and none is omitted.
C21_DigraphStatements ==
    /\ dot_op = "create_dot_digraph"
       => LET clusters == dot_args.cluster_nodes_dict
              edges == dot_args.edge_tuple_dict
              blocks ==
                  [ i \in 1..Len(clusters) |->
                      create_dot_cluster(clusters[i][1], clusters,
                                         dot_args.entity_label_dict,
                                         dot_args.entity_categories_dict,
                                         dot_args.category_attrs_dict) ]
              arrows ==
                  [ i \in 1..Len(edges) |->
                      Dot.quote \o StrOfInt(edges[i][2][1]) \o Dot.quote_space
                          \o Dot.arrow_open \o StrOfInt(edges[i][2][2])
                          \o Dot.quote
                          \o create_dot_attr_list(
                                 edges[i][1], dot_args.entity_label_dict,
                                 dot_args.entity_categories_dict,
                                 dot_args.category_attrs_dict)
                          \o Dot.semicolon ]
          IN  /\ EndsWith(dot_text,
                          Dot.label_open \o dot_args.title
                              \o Dot.quote_semicolon
                              \o Join(Dot.space,
                                      NodeStatementsOf(dot_args.free_nodes)
                                          \o blocks \o arrows)
                              \o Dot.brace_close)
              /\ Occurrences(Dot.subgraph_open, dot_text) = Len(clusters)
              /\ Occurrences(Dot.quote_space \o Dot.arrow_open, dot_text)
                     = Len(edges)
              /\ \A i \in 1..Len(dot_args.free_nodes) :
                     NodeStatements(dot_args.free_nodes[i], dot_text) = 1
              /\ \A i \in 1..Len(clusters) :
                     \A j \in 1..Len(clusters[i][2]) :
                         NodeStatements(clusters[i][2][j], dot_text) = 1
    /\ dot_op = "create_dot_cluster"
       => LET nodes == DictGet(dot_args.cluster_nodes_dict, dot_entity)[1]
          IN  /\ StartsWith(dot_text,
                            Dot.subgraph_open \o StrOfInt(dot_entity)
                                \o Dot.quote_space \o Dot.brace_open)
              /\ EndsWith(dot_text,
                          Dot.quote_semicolon
                              \o Join(Dot.space, NodeStatementsOf(nodes))
                              \o Dot.brace_close)
              /\ \A j \in 1..Len(nodes) :
                     NodeStatements(nodes[j], dot_text) = 1

\* A digraph of two free nodes, two clusters, one of them of two nodes, and
\* three edges was rendered.
C21_Witness ==
    /\ dot_op = "create_dot_digraph"
    /\ Len(dot_args.free_nodes) = 2
    /\ Len(dot_args.cluster_nodes_dict) = 2
    /\ Len(dot_args.cluster_nodes_dict[1][2]) = 2
    /\ Len(dot_args.edge_tuple_dict) = 3
    /\ Occurrences(Dot.subgraph_open, dot_text) = 2

\* The IDs of the edges with the categories (tag,).
EdgesTagged(tag) ==
    { edge_id \in DOMAIN graph_data.edge_tuple_dict :
          graph_data.entity_categories_dict[edge_id] = Tuple(<<tag>>) }

\* C22: built from the roots Rig (parentless bones Arm.L and Arm.R, each with
\* one constraint of the same type on the object Target, no subtarget) and
\* Target with no bone excluded, the returned graph has exactly 2 clusters;
\* Arm.R has no node; there is exactly one 'constraint' edge, from the node
\* of Arm.L to the head node of Target; and there is exactly one 'parent'
\* edge if a parent relation is declared between Rig and Target, and none
\* otherwise.
C22_EndToEnd ==
    ( /\ pc = "done"
      /\ GraphInput(scene, blender_structs, excluded_bones) \in EndToEndInputs )
    => /\ Cardinality(DOMAIN graph_data.cluster_nodes_dict) = 2
       /\ Len(struct_cluster_id_dict) = 2
       /\ ~ BoneHasNode("Rig", Name.ArmR)
       /\ RegistryGet(struct_entity_id_dict, BoneKey("Rig", Name.ArmR)) = None
       /\ BoneHasNode("Rig", Name.ArmL)
       /\ Cardinality(EdgesTagged("constraint")) = 1
       /\ \A edge_id \in EdgesTagged("constraint") :
              /\ Some(graph_data.edge_tuple_dict[edge_id][1])
                     = RegistryGet(struct_entity_id_dict,
                                   BoneKey("Rig", Name.ArmL))
              /\ Some(graph_data.edge_tuple_dict[edge_id][2])
                     = RegistryGet(struct_entity_id_dict, ObjectKey("Target"))
              /\ graph_data.edge_tuple_dict[edge_id][2]
                     \in graph_data.cluster_nodes_dict[
                             RegistryGet(struct_cluster_id_dict,
                                         ObjectKey("Target"))[1]]
              /\ InCategories("head",
                     graph_data.entity_categories_dict[
                         graph_data.edge_tuple_dict[edge_id][2]])
       /\ Cardinality(EdgesTagged("parent"))
              = IF \/ scene.objects["Rig"].parent = Some("Target")
                   \/ scene.objects["Target"].parent = Some("Rig")
                THEN 1 ELSE 0
       /\ DOMAIN graph_data.edge_tuple_dict
              = EdgesTagged("constraint") \cup EdgesTagged("parent")

\* The graph of the scenario was returned with Target, an armature with a
\* bone, parented to the bone Arm.R, which has no node: the parent edge ends
\* at the head node of Rig.
C22_Witness ==
    /\ pc = "done"
    /\ GraphInput(scene, blender_structs, excluded_bones) \in EndToEndInputs
    /\ scene.objects["Target"].type = "ARMATURE"
    /\ scene.objects["Target"].parent_type = "BONE"
    /\ scene.objects["Target"].parent_bone = Name.ArmR
    /\ scene.objects["Rig"].bones[1].constraints[1].name
           # scene.objects["Rig"].bones[2].constraints[1].name
    /\ HasParentEdge(ObjectKey("Target"), ObjectKey("Rig"))
    /\ Cardinality(EdgesTagged("constraint")) = 1

\* C23: analyze_rig_graph terminates without error for every scene, also when
\* constraints form cycles, parents are missing or constraints have no
\* target: every call that has begun returns its graph.
C23_Terminates ==
    (pc = "declare") ~> (pc = "done")

\* A graph was returned for a scene in which a bone of Rig has a constraint
\* on a bone of Other and a bone of Other one on a bone of Rig, both
\* armatures being roots, and one in which a bone has a constraint on a bone
\* of its own armature after a constraint without target.
C23_Witness ==
    /\ pc = "done"
    /\ "Rig" \in RootObjects
    /\ "Other" \in RootObjects
    /\ \E i \in 1..Len(scene.objects["Rig"].bones) :
       \E j \in 1..Len(scene.objects["Rig"].bones[i].constraints) :
           scene.objects["Rig"].bones[i].constraints[j].target = Some("Other")
    /\ \E i \in 1..Len(scene.objects["Other"].bones) :
       \E j \in 1..Len(scene.objects["Other"].bones[i].constraints) :
           /\ scene.objects["Other"].bones[i].constraints[j].target = Some("Rig")
           /\ scene.objects["Other"].bones[i].constraints[1].target = None

-----------------------------------------------------------------------------
(* Properties of saving *)

\* The renderer was run and save_files has returned or raised.
RendererRan ==
    /\ save_pc = "done"
    /\ save_log # <<>>
    /\ save_log[Len(save_log)] = "exec_graphviz_async"

C24_OutputErrorReached ==
    /\ RendererRan
    /\ save_args.os.returncode = -9
    /\ save_raised # None
    /\ save_raised[1].type = "GraphvizOutputError"
    /\ save_raised[1].message = save_args.os.stderr
    /\ save_raised[1].message # <<>>

\* back_up_file was the last step taken.
BackedUp ==
    /\ save_log # <<>>
    /\ save_log[Len(save_log)] = "back_up_file"

OutputImage ==
    PathPlus(save_args.output_directory_path \o <<save_args.output_filename>>,
             FileName.output_file_extension)

\* '<filename>.<i>.png' in the output directory, for the smallest i that
\* named no file when save_files was called.
FirstUnusedBackup ==
    LET name(i) ==
            PathPlus(save_args.output_directory_path
                         \o <<save_args.output_filename>>,
                     <<".">> \o StrOfInt(i) \o FileName.output_file_extension)
    IN  name(CHOOSE i \in 0..Cardinality(DOMAIN save_args.file_system.files) :
                 /\ ~ os_path_exists(save_args.file_system, name(i))
                 /\ \A j \in 0..(i - 1) :
                        os_path_exists(save_args.file_system, name(j)))

\* The files once the DOT source was written.
FilesWithSource ==
    (save_args.dot_source_file_path :> save_args.dot_text)
        @@ save_args.file_system.files

\* The files after a backup as the docstring of back_up_file describes it:
\* an existing image is copied to the first unused name, otherwise nothing
\* changes.
FilesBackedUp ==
    IF OutputImage \in DOMAIN save_args.file_system.files
    THEN (FirstUnusedBackup :> "old image") @@ FilesWithSource
    ELSE FilesWithSource

\* The steps taken are the first of: write the source, back up, render.
SaveStepsInOrder ==
    \E n \in 0..3 :
        save_log = SubSeq(<<"save_temp_dot_source_file", "back_up_file",
                           "exec_graphviz_async">>, 1, n)

\* C25: save_files_async writes the DOT source, backs up, then renders; when
\* back_up_file returns, an image that existed is copied to the first unused
\* '<filename>.<i>.png' of the output directory and every other file is as
\* it was, and without an image no file is created; when back_up_file raises,
\* the renderer is not run.
C25_BackedUpBeforeRender ==
    /\ SaveStepsInOrder
    /\ (BackedUp /\ save_raised = None) => file_system.files = FilesBackedUp
    /\ (BackedUp /\ save_raised # None) => save_pc \in {"return", "done"}

\* The same for an absolute output directory.
BackedUpInAbsoluteDirectory ==
    save_args.output_directory_path[1] = FileName.root
        => C25_BackedUpBeforeRender

\* With a relative output directory back_up_file returns without a backup
\* unless the directory holds a directory of its own name, and then the copy
\* goes there, over whatever file has that name.
BackedUpInRelativeDirectory ==
    (/\ BackedUp
     /\ save_raised = None
     /\ save_args.output_directory_path[1] # FileName.root
     /\ OutputImage \in DOMAIN save_args.file_system.files)
        => /\ FirstUnusedBackup \notin DOMAIN file_system.files
           /\ file_system.files =
                  IF (save_args.output_directory_path
                          \o save_args.output_directory_path)
                         \in save_args.file_system.dirs
                  THEN (save_args.output_directory_path \o FirstUnusedBackup
                            :> "old image") @@ FilesWithSource
                  ELSE FilesWithSource

\* An image existed in an absolute output directory with backups 0 and 1 and
\* was copied to backup 2 before the renderer replaced it.
BackupReached ==
    /\ save_pc = "done"
    /\ save_raised = None
    /\ save_args.output_directory_path[1] = FileName.root
    /\ Cardinality(DOMAIN save_args.file_system.files) >= 3
    /\ OutputImage \in DOMAIN save_args.file_system.files
    /\ FirstUnusedBackup \in DOMAIN file_system.files
    /\ file_system.files[FirstUnusedBackup] = "old image"
    /\ file_system.files[OutputImage] = "new image"

\* With a relative output directory an existing file was overwritten by the
\* backup.
OverwriteReached ==
    /\ BackedUp
    /\ \E path \in DOMAIN save_args.file_system.files :
           /\ save_args.file_system.files[path] = "other file"
           /\ file_system.files[path] = "old image"

-----------------------------------------------------------------------------
(* Properties of the graph of the visible bones *)

\* analyze_rig_graph was called by the operator that graphs the visible bones.
VisibleBonesRun == "visibility" \in DOMAIN scene

\* The bone is hidden in the current mode or on no shown layer.
Invisible(armature_object, name) ==
    \/ <<armature_object, name>>
           \in (IF scene.visibility.context_mode = "EDIT_ARMATURE"
                THEN scene.visibility.edit_hide
                ELSE scene.visibility.hide)
    \/ scene.visibility.layers[armature_object]
           \cap scene.visibility.bone_layers[<<armature_object, name>>] = {}

\* <<armature, left bone, right bone>> of the root armatures, each bone
\* classified as symmetric with the other.
SymmetricPairs ==
    { t \in { <<l[1], l[2], r[2]>> : l \in SceneBones, r \in SceneBones } :
        /\ t[1] \in RootObjects
        /\ <<t[1], t[3]>> \in SceneBones
        /\ classify_bone(t[2], t[1])[1] = "left_symmetric"
        /\ classify_bone(t[2], t[1])[2] = t[3].name
        /\ classify_bone(t[3], t[1])[1] = "right_symmetric"
        /\ classify_bone(t[3], t[1])[2] = t[2].name }

\* What the predicate answers: false for a visible bone, true for an
\* invisible bone that is not symmetric, and for an invisible symmetric bone
\* whether its opposite bone is invisible too.
PredicateAsStated ==
    VisibleBonesRun =>
        \A b \in SceneBones :
            is_bone_excluded(b[2], b[1])
                = IF ~ Invisible(b[1], b[2].name) THEN FALSE
                  ELSE IF classify_bone(b[2], b[1])[1]
                              \notin {"left_symmetric", "right_symmetric"}
                  THEN TRUE
                  ELSE Invisible(b[1], classify_bone(b[2], b[1])[2])

BothSidesReached ==
    /\ pc = "done"
    /\ VisibleBonesRun
    /\ \E t \in SymmetricPairs :
           /\ BoneHasNode(t[1], t[2].name)
           /\ BoneHasNode(t[1], t[3].name)

\* A graph was returned in which a symmetric pair is invisible and has no
\* node.
NoSideReached ==
    /\ pc = "done"
    /\ VisibleBonesRun
    /\ \E t \in SymmetricPairs :
           /\ Invisible(t[1], t[2].name)
           /\ Invisible(t[1], t[3].name)
           /\ ~ BoneHasNode(t[1], t[2].name)
           /\ ~ BoneHasNode(t[1], t[3].name)

-----------------------------------------------------------------------------
(* Properties of symmetric pairs *)

\* The bone of the armature that classify_bone names as the opposite of b.
OppositeOf(b) ==
    BoneNamed(b[1], classify_bone(b[2], b[1])[2])

\* The node of the bone carries the bone type in its categories.
BoneNodeTyped(armature_object, name, bone_type) ==
    /\ BoneHasNode(armature_object, name)
    /\ LET node_id == RegistryGet(struct_entity_id_dict,
                                  BoneKey(armature_object, name))[1]
       IN  graph_data.entity_categories_dict[node_id].items[3] = bone_type

\* C27: the opposite of a right_symmetric bone is classified left_symmetric
\* and the opposite of a left_symmetric bone right_symmetric, whatever the
\* names; in the returned graph, every right_symmetric bone of a root
\* armature that was left out as redundant has its opposite bone shown by a
\* left_symmetric node (is_bone_excluded holding for neither).
C27_OppositeClassified ==
    /\ \A b \in SceneBones :
           /\ classify_bone(b[2], b[1])[1] = "right_symmetric"
                  => classify_bone(OppositeOf(b), b[1])[1] = "left_symmetric"
           /\ classify_bone(b[2], b[1])[1] = "left_symmetric"
                  => classify_bone(OppositeOf(b), b[1])[1] = "right_symmetric"
    /\ pc = "done" =>
           \A b \in SceneBones :
               ( /\ b[1] \in RootObjects
                 /\ classify_bone(b[2], b[1])[1] = "right_symmetric"
                 /\ ~ is_bone_excluded(b[2], b[1])
                 /\ ~ is_bone_excluded(OppositeOf(b), b[1])
                 /\ ~ BoneHasNode(b[1], b[2].name) )
                   => BoneNodeTyped(b[1], OppositeOf(b).name, "left_symmetric")

\* The bone is the opposite of its opposite: its name is spelled as
\* parse_sided_bone_name spells opposite names.
SpelledCanonically(b) ==
    /\ parse_sided_bone_name(b[2].name) # None
    /\ parse_sided_bone_name(parse_sided_bone_name(b[2].name)[2]) # None
    /\ parse_sided_bone_name(parse_sided_bone_name(b[2].name)[2])[2] = b[2].name

\* The same for the bones whose names are spelled canonically.
OppositeClassifiedCanonical ==
    /\ \A b \in { c \in SceneBones : SpelledCanonically(c) } :
           /\ classify_bone(b[2], b[1])[1] = "right_symmetric"
                  => classify_bone(OppositeOf(b), b[1])[1] = "left_symmetric"
           /\ classify_bone(b[2], b[1])[1] = "left_symmetric"
                  => classify_bone(OppositeOf(b), b[1])[1] = "right_symmetric"
    /\ pc = "done" =>
           \A b \in { c \in SceneBones : SpelledCanonically(c) } :
               ( /\ b[1] \in RootObjects
                 /\ classify_bone(b[2], b[1])[1] = "right_symmetric"
                 /\ ~ is_bone_excluded(b[2], b[1])
                 /\ ~ is_bone_excluded(OppositeOf(b), b[1])
                 /\ ~ BoneHasNode(b[1], b[2].name) )
                   => BoneNodeTyped(b[1], OppositeOf(b).name, "left_symmetric")

\* The graph of 'x RiGHT' and 'x Left' was returned: 'x RiGHT' is
\* right_symmetric and has no node, and the node of 'x Left' is
\* antisymmetric.
SkippedWithoutLeftSymmetricReached ==
    /\ pc = "done"
    /\ Len(BonesOf("Rig")) = 2
    /\ classify_bone(BoneNamed("Rig", Name.XRiGHT), "Rig")[1] = "right_symmetric"
    /\ ~ BoneHasNode("Rig", Name.XRiGHT)
    /\ BoneNodeTyped("Rig", Name.XLeft, "antisymmetric")

\* The graph of 'x RiGHT', 'x Right' and 'x Left', all alike, was returned:
\* both right bones are left out and 'x Left' has a left_symmetric node.
CaseVariantsAlikeReached ==
    /\ pc = "done"
    /\ Len(BonesOf("Rig")) = 3
    /\ HasBone("Rig", Name.XRiGHT)
    /\ ~ BoneHasNode("Rig", Name.XRiGHT)
    /\ ~ BoneHasNode("Rig", Name.XRight)
    /\ BoneNodeTyped("Rig", Name.XLeft, "left_symmetric")

-----------------------------------------------------------------------------
(* Properties of the returned graph *)

\* A graph was returned by analyze_rig_graph or create_legend_data.
GraphReturned == pc \in {"done", "legend"}

\* C28: in the returned graph both ends of every edge are nodes of free_nodes
\* or of a cluster; no end is the ID of a cluster or of an edge, and no end is
\* an ID that is in no container (a bone left out, a head node removed).
C28_EdgeEndsAreNodes ==
    GraphReturned =>
        \A edge_id \in DOMAIN graph_data.edge_tuple_dict :
            \A end \in 1..2 :
                /\ graph_data.edge_tuple_dict[edge_id][end] \in NodeIds
                /\ graph_data.edge_tuple_dict[edge_id][end]
                       \notin DOMAIN graph_data.cluster_nodes_dict
                /\ graph_data.edge_tuple_dict[edge_id][end]
                       \notin DOMAIN graph_data.edge_tuple_dict

\* A graph was returned from which a head node was removed and a bone was
\* left out, with a constraint edge and a parent edge among its edges.
C28_Witness ==
    /\ pc = "done"
    /\ EdgesTagged("constraint") # {}
    /\ EdgesTagged("parent") # {}
    /\ \E i \in 1..Len(id_log) :
           /\ id_log[i][3] \notin NodeIds
           /\ id_log[i][3] \notin DOMAIN graph_data.edge_tuple_dict
           /\ id_log[i][3] \notin DOMAIN graph_data.cluster_nodes_dict
    /\ \E b \in SceneBones :
           /\ b[1] \in RootObjects
           /\ ~ BoneHasNode(b[1], b[2].name)

\* The legend was returned.
LegendReached ==
    /\ pc = "legend"
    /\ DOMAIN graph_data.edge_tuple_dict # {}

-----------------------------------------------------------------------------
(* Properties of repeated roots *)

\* The roots without the repetitions: the first occurrence of each, in order.
RECURSIVE Deduplicated(_)
Deduplicated(roots) ==
    IF roots = <<>> THEN <<>>
    ELSE Let(Deduplicated(SubSeq(roots, 1, Len(roots) - 1)), LAMBDA rest :
             IF \E i \in 1..Len(rest) : rest[i] = roots[Len(roots)]
             THEN rest
             ELSE Append(rest, roots[Len(roots)]))

\* The root about to be declared was declared before.
RootRepeated ==
    /\ pc = "declare"
    /\ index <= Len(blender_structs)
    /\ \E j \in 1..(index - 1) : blender_structs[j] = blender_structs[index]

\* C29: the graph returned for a list of roots is the graph of the list
\* without its repetitions, IDs included; and declaring a root again adds no
\* ID and changes neither the registries nor the graph.
C29_RepeatedRoots ==
    /\ [](pc = "done"
             => graph_data = analyze_rig_graph(Deduplicated(blender_structs)))
    /\ [][RootRepeated
             => /\ fresh_ids' = fresh_ids
                /\ struct_entity_id_dict' = struct_entity_id_dict
                /\ struct_cluster_id_dict' = struct_cluster_id_dict
                /\ graph_data' = graph_data]_vars

\* The graph of the roots Other, Rig, Other was returned, with clusters,
\* constraint edges between the armatures and a bone node that is the
\* destination of one.
C29_Witness ==
    /\ pc = "done"
    /\ blender_structs = <<"Other", "Rig", "Other">>
    /\ Deduplicated(blender_structs) = <<"Other", "Rig">>
    /\ Cardinality(DOMAIN graph_data.cluster_nodes_dict) >= 2
    /\ EdgesTagged("constraint") # {}
    /\ BoneHasNode("Rig", Name.ArmR)

-----------------------------------------------------------------------------
(* Properties of the clusters *)

\* The cluster IDs the builder allocated.
AllocatedClusterIds ==
    { id_log[i][3] :
        i \in { n \in 1..Len(id_log) : id_log[n][1] = "struct_cluster_id_dict" } }

\* C30: in the returned graph every cluster ID the builder allocated has an
\* entry in cluster_nodes_dict, and every entry holds at least one node.
C30_ClustersNotEmpty ==
    GraphReturned =>
        /\ AllocatedClusterIds = DOMAIN graph_data.cluster_nodes_dict
        /\ \A cluster_id \in DOMAIN graph_data.cluster_nodes_dict :
               graph_data.cluster_nodes_dict[cluster_id] # {}

\* A graph was returned for a root armature all of whose bones are excluded:
\* its cluster holds the head node alone; and the head node of another
\* cluster was removed, leaving its bones.
C30_Witness ==
    /\ pc = "done"
    /\ "Rig" \in RootObjects
    /\ \A b \in SceneBones : b[1] = "Rig" => is_bone_excluded(b[2], b[1])
    /\ RegistryGet(struct_cluster_id_dict, ObjectKey("Rig")) # None
    /\ graph_data.cluster_nodes_dict[
           RegistryGet(struct_cluster_id_dict, ObjectKey("Rig"))[1]]
           = {RegistryGet(struct_entity_id_dict, ObjectKey("Rig"))[1]}

\* A graph was returned from which the head node of a cluster with bone nodes
\* was removed.
HeadRemovedReached ==
    /\ pc = "done"
    /\ \E b \in SceneBones :
           /\ BoneHasNode(b[1], b[2].name)
           /\ RegistryGet(struct_entity_id_dict, ObjectKey(b[1])) = None

\* A graph was returned with the cluster of an armature that is no root,
\* made for a bone that is the destination of a constraint.
DestinationClusterReached ==
    /\ pc = "done"
    /\ \E b \in SceneBones :
           /\ b[1] \notin RootObjects
           /\ BoneHasNode(b[1], b[2].name)

=============================================================================
